---- MODULE Spec2Model ----
(***************************************************************************)
(* Model of the naming-condition rule engine of the job-structure tool:    *)
(*   src/PythonScriptTools/get_customer_job_structure.py  (scanner path)   *)
(*   src/database.py apply_naming_conditions_to_structure (bulk path)      *)
(*                                                                         *)
(* A Python str is a sequence of one-character strings.  A result of a     *)
(* Python call is a record [err, val]: err = "none" for a normal return,   *)
(* otherwise the name of the exception that propagates out of the call.    *)
(* The re module is modelled as Python >= 3.7 behaves (a replacement       *)
(* template with an unknown letter escape such as \s is an re.error).      *)
(***************************************************************************)
EXTENDS Integers, Sequences, FiniteSets, TLC

(***************************************************************************)
(* Characters                                                              *)
(***************************************************************************)
CharTable ==
  << " ", "$", "(", ")", "*", "+", ",", "-", ".", "/",
     "0", "1", "2", "3", "4", "5", "6", "7", "8", "9",
     ":", "?",
     "A", "B", "C", "D", "E", "F", "G", "H", "I", "J", "K", "L", "M",
     "N", "O", "P", "Q", "R", "S", "T", "U", "V", "W", "X", "Y", "Z",
     "[", "\\", "]", "^", "_",
     "a", "b", "c", "d", "e", "f", "g", "h", "i", "j", "k", "l", "m",
     "n", "o", "p", "q", "r", "s", "t", "u", "v", "w", "x", "y", "z",
     "{", "|", "}" >>

Chars == { CharTable[i] : i \in 1..Len(CharTable) }

Ord == [ c \in Chars |-> CHOOSE i \in 1..Len(CharTable) : CharTable[i] = c ]

CharRange(a, b) == { c \in Chars : Ord[a] <= Ord[c] /\ Ord[c] <= Ord[b] }

DigitChars == CharRange("0", "9")
UpperChars == CharRange("A", "Z")
LowerChars == CharRange("a", "z")
WordChars  == DigitChars \cup UpperChars \cup LowerChars \cup {"_"}
SpaceChars == {" "}

DigitVal(c) == Ord[c] - Ord["0"]

(***************************************************************************)
(* Results of calls                                                        *)
(***************************************************************************)
OkB(b)    == [err |-> "none", val |-> b]
RaiseB(e) == [err |-> e, val |-> FALSE]
OkS(s)    == [err |-> "none", val |-> s]
RaiseS(e) == [err |-> e, val |-> <<>>]

(***************************************************************************)
(* str methods                                                             *)
(***************************************************************************)
MatchAt(s, p, i) == i + Len(p) - 1 <= Len(s) /\ SubSeq(s, i, i + Len(p) - 1) = p

str_startswith(s, p) == MatchAt(s, p, 1)

str_endswith(s, p) == Len(p) <= Len(s) /\ MatchAt(s, p, Len(s) - Len(p) + 1)

\* p in s
str_in(p, s) == \E i \in 1..(Len(s) + 1) : MatchAt(s, p, i)

RECURSIVE ReplaceFrom(_, _, _, _)
ReplaceFrom(s, old, new, i) ==
  IF i > Len(s) THEN <<>>
  ELSE IF MatchAt(s, old, i) THEN new \o ReplaceFrom(s, old, new, i + Len(old))
  ELSE <<s[i]>> \o ReplaceFrom(s, old, new, i + 1)

RECURSIVE Interleave(_, _, _)
Interleave(s, new, i) ==
  IF i > Len(s) THEN new ELSE new \o <<s[i]>> \o Interleave(s, new, i + 1)

\* s.replace(old, new): every non-overlapping occurrence, left to right;
\* an empty old inserts new before every character and at the end.
str_replace(s, old, new) ==
  IF old = <<>> THEN Interleave(s, new, 1) ELSE ReplaceFrom(s, old, new, 1)

(***************************************************************************)
(* re module: pattern compiler.  A compiled pattern is a tree of records   *)
(*   [t |-> "set", cs]        one character of the set cs                  *)
(*   [t |-> "seq", xs]        concatenation                                *)
(*   [t |-> "alt", xs]        alternation, leftmost branch preferred       *)
(*   [t |-> "rep", x, lo, hi, at]  greedy repeat, hi = -1 for no maximum   *)
(*   [t |-> "grp", x, n]      capturing group number n                     *)
(*   [t |-> "bol"], [t |-> "eol"]  anchors                                 *)
(* The dialect is the one the program's own patterns are written in:       *)
(* literals, ., \d \w \s, escaped punctuation, [...] classes with ranges,  *)
(* ( ), (?: ), |, and the quantifiers * + ? {m} {m,n}.                     *)
(***************************************************************************)
At(s, i) == IF i >= 1 /\ i <= Len(s) THEN s[i] ELSE ""

EmptyNode == [t |-> "seq", xs |-> <<>>]
PErr == [ok |-> FALSE, node |-> EmptyNode, i |-> 0, g |-> 0]
POk(node, i, g) == [ok |-> TRUE, node |-> node, i |-> i, g |-> g]

RECURSIVE ReadNum(_, _, _, _)
ReadNum(s, i, n, any) ==
  IF At(s, i) \in DigitChars THEN ReadNum(s, i + 1, 10 * n + DigitVal(s[i]), TRUE)
  ELSE [n |-> n, i |-> i, any |-> any]

NoQuant(i) == [has |-> FALSE, bad |-> FALSE, lo |-> 0, hi |-> 0, i |-> i]
Quant(lo, hi, i) == [has |-> TRUE, bad |-> hi >= 0 /\ hi < lo, lo |-> lo, hi |-> hi, i |-> i]

\* the quantifier starting at position i, if there is one
ParseQuant(s, i) ==
  LET c == At(s, i) IN
  IF c = "*" THEN Quant(0, -1, i + 1)
  ELSE IF c = "+" THEN Quant(1, -1, i + 1)
  ELSE IF c = "?" THEN Quant(0, 1, i + 1)
  ELSE IF c = "{" THEN
    LET a == ReadNum(s, i + 1, 0, FALSE) IN
    IF a.any /\ At(s, a.i) = "}" THEN Quant(a.n, a.n, a.i + 1)
    ELSE IF At(s, a.i) = "," THEN
      LET b == ReadNum(s, a.i + 1, 0, FALSE) IN
      IF At(s, b.i) = "}" /\ (a.any \/ b.any)
        THEN Quant(a.n, IF b.any THEN b.n ELSE -1, b.i + 1)
        ELSE NoQuant(i)
    ELSE NoQuant(i)
  ELSE NoQuant(i)

EscapeSet(e) ==
  IF e = "d" THEN DigitChars
  ELSE IF e = "w" THEN WordChars
  ELSE IF e = "s" THEN SpaceChars
  ELSE {e}

\* letters after a backslash that the pattern syntax does not define
BadPatternEscape(e) ==
  e = "" \/ (e \in (UpperChars \cup LowerChars) /\ e \notin {"d", "w", "s"})

CErr == [ok |-> FALSE, cs |-> {}, i |-> 0]

RECURSIVE ParseClass(_, _, _, _)
ParseClass(s, i, acc, first) ==
  LET c == At(s, i) IN
  IF c = "" THEN CErr
  ELSE IF c = "]" /\ ~first THEN [ok |-> TRUE, cs |-> acc, i |-> i + 1]
  ELSE IF c = "\\" THEN
    IF BadPatternEscape(At(s, i + 1)) THEN CErr
    ELSE ParseClass(s, i + 2, acc \cup EscapeSet(At(s, i + 1)), FALSE)
  ELSE IF At(s, i + 1) = "-" /\ At(s, i + 2) \notin {"]", "", "\\"} THEN
    IF Ord[At(s, i + 2)] < Ord[c] THEN CErr
    ELSE ParseClass(s, i + 3, acc \cup CharRange(c, At(s, i + 2)), FALSE)
  ELSE ParseClass(s, i + 1, acc \cup {c}, FALSE)

RECURSIVE ParseAlt(_, _, _, _)
RECURSIVE ParseSeq(_, _, _, _)
RECURSIVE ParseAtom(_, _, _)

\* the atom "(...)" once its body r is parsed; n > 0 numbers a capturing group
CloseGroup(s, r, n) ==
  IF r.ok /\ At(s, r.i) = ")"
    THEN POk(IF n > 0 THEN [t |-> "grp", x |-> r.node, n |-> n] ELSE r.node,
             r.i + 1, r.g)
    ELSE PErr

\* the atom "[...]" once its members r are parsed
ClassNode(r, neg, g) ==
  IF r.ok
    THEN POk([t |-> "set", cs |-> IF neg THEN Chars \ r.cs ELSE r.cs], r.i, g)
    ELSE PErr

ParseAtom(s, i, g) ==
  LET c == At(s, i)
      plain == At(s, i + 1) = "?" IN
  IF c = "(" THEN
    IF plain /\ At(s, i + 2) # ":" THEN PErr
    ELSE CloseGroup(s, ParseAlt(s, IF plain THEN i + 3 ELSE i + 1,
                                IF plain THEN g ELSE g + 1, <<>>),
                    IF plain THEN 0 ELSE g + 1)
  ELSE IF c = "[" THEN
    ClassNode(ParseClass(s, IF At(s, i + 1) = "^" THEN i + 2 ELSE i + 1, {}, TRUE),
              At(s, i + 1) = "^", g)
  ELSE IF c = "\\" THEN
    IF BadPatternEscape(At(s, i + 1)) THEN PErr
    ELSE POk([t |-> "set", cs |-> EscapeSet(At(s, i + 1))], i + 2, g)
  ELSE IF c = "." THEN POk([t |-> "set", cs |-> Chars], i + 1, g)
  ELSE IF c = "^" THEN POk([t |-> "bol"], i + 1, g)
  ELSE IF c = "$" THEN POk([t |-> "eol"], i + 1, g)
  ELSE IF c \in {"*", "+", "?"} THEN PErr       \* nothing to repeat
  ELSE POk([t |-> "set", cs |-> {c}], i + 1, g)

\* the rest of a sequence after the atom a and what ParseQuant found behind it
AfterQuant(s, acc, a, q) ==
  IF ~q.has THEN ParseSeq(s, a.i, a.g, Append(acc, a.node))
  ELSE IF q.bad \/ ParseQuant(s, q.i).has \/ a.node.t \in {"bol", "eol"} THEN PErr
  ELSE ParseSeq(s, q.i, a.g,
         Append(acc, [t |-> "rep", x |-> a.node, lo |-> q.lo, hi |-> q.hi, at |-> 0]))

AfterAtom(s, acc, a) ==
  IF ~a.ok THEN PErr ELSE AfterQuant(s, acc, a, ParseQuant(s, a.i))

ParseSeq(s, i, g, acc) ==
  IF At(s, i) \in {"", "|", ")"} THEN POk([t |-> "seq", xs |-> acc], i, g)
  ELSE AfterAtom(s, acc, ParseAtom(s, i, g))

\* the rest of an alternation after the branch b
AfterBranch(s, acc, b) ==
  IF ~b.ok THEN PErr
  ELSE IF At(s, b.i) = "|" THEN ParseAlt(s, b.i + 1, b.g, Append(acc, b.node))
  ELSE IF acc = <<>> THEN b
  ELSE POk([t |-> "alt", xs |-> Append(acc, b.node)], b.i, b.g)

ParseAlt(s, i, g, acc) == AfterBranch(s, acc, ParseSeq(s, i, g, <<>>))

Compiled(pattern, r) ==
  IF r.ok /\ r.i = Len(pattern) + 1
    THEN [err |-> "none", node |-> r.node, groups |-> r.g]
    ELSE [err |-> "re.error", node |-> EmptyNode, groups |-> 0]

\* re.compile(pattern): err = "re.error" for a pattern that does not parse
re_compile(pattern) == Compiled(pattern, ParseAlt(pattern, 1, 0, <<>>))

(***************************************************************************)
(* re module: backtracking matcher.  st is the sequence of nodes still to  *)
(* match, caps the spans of the groups closed so far (<<0, 0>>: unset).    *)
(* The first success in the engine's preference order is the match.        *)
(***************************************************************************)
MFail == [ok |-> FALSE, end |-> 0, caps |-> <<>>]

RECURSIVE M(_, _, _, _, _)
RECURSIVE MAlt(_, _, _, _, _, _, _)

M(name, st, pos, caps, minEnd) ==
  IF st = <<>> THEN
    IF pos >= minEnd THEN [ok |-> TRUE, end |-> pos, caps |-> caps] ELSE MFail
  ELSE
    LET h == Head(st)
        tl == Tail(st) IN
    IF h.t = "set" THEN
      IF pos <= Len(name) /\ name[pos] \in h.cs
        THEN M(name, tl, pos + 1, caps, minEnd) ELSE MFail
    ELSE IF h.t = "seq" THEN M(name, h.xs \o tl, pos, caps, minEnd)
    ELSE IF h.t = "alt" THEN MAlt(name, h.xs, 1, tl, pos, caps, minEnd)
    ELSE IF h.t = "rep" THEN
      LET skip == IF h.lo = 0 THEN M(name, tl, pos, caps, minEnd) ELSE MFail IN
      IF h.hi = 0 \/ h.at = pos THEN skip
      ELSE
        LET again == [h EXCEPT !.lo = IF h.lo > 0 THEN h.lo - 1 ELSE 0,
                               !.hi = IF h.hi > 0 THEN h.hi - 1 ELSE h.hi,
                               !.at = pos]
            r == M(name, <<h.x, again>> \o tl, pos, caps, minEnd) IN
        IF r.ok THEN r ELSE skip
    ELSE IF h.t = "grp" THEN
      M(name, <<h.x, [t |-> "end", n |-> h.n, s |-> pos]>> \o tl, pos, caps, minEnd)
    ELSE IF h.t = "end" THEN
      M(name, tl, pos, [caps EXCEPT ![h.n] = <<h.s, pos>>], minEnd)
    ELSE IF h.t = "bol" THEN
      IF pos = 1 THEN M(name, tl, pos, caps, minEnd) ELSE MFail
    ELSE \* "eol"
      IF pos = Len(name) + 1 THEN M(name, tl, pos, caps, minEnd) ELSE MFail

MAlt(name, xs, k, tl, pos, caps, minEnd) ==
  IF k > Len(xs) THEN MFail
  ELSE
    LET r == M(name, <<xs[k]>> \o tl, pos, caps, minEnd) IN
    IF r.ok THEN r ELSE MAlt(name, xs, k + 1, tl, pos, caps, minEnd)

NoMatch == [ok |-> FALSE, s |-> 0, e |-> 0, caps |-> <<>>]

RECURSIVE SearchFrom(_, _, _, _)

\* r is the outcome of matching at start; on failure the search moves on
MatchedAt(re, name, start, r) ==
  IF r.ok THEN [ok |-> TRUE, s |-> start, e |-> r.end, caps |-> r.caps]
  ELSE SearchFrom(re, name, start + 1, FALSE)

SearchFrom(re, name, start, mustAdvance) ==
  IF start > Len(name) + 1 THEN NoMatch
  ELSE MatchedAt(re, name, start,
                 M(name, <<re.node>>, start, [k \in 1..re.groups |-> <<0, 0>>],
                   IF mustAdvance THEN start + 1 ELSE start))

\* compiled.search(name): the leftmost match
re_search(re, name) == SearchFrom(re, name, 1, FALSE)

\* match.group(k), group 0 being the whole match
MatchGroup(name, m, k) ==
  IF k = 0 THEN SubSeq(name, m.s, m.e - 1)
  ELSE IF m.caps[k] = <<0, 0>> THEN <<>>
  ELSE SubSeq(name, m.caps[k][1], m.caps[k][2] - 1)

(***************************************************************************)
(* re module: replacement templates.  A template is parsed before any      *)
(* match is looked for; it is a sequence of literal characters and group   *)
(* references.                                                             *)
(***************************************************************************)
TLit(c) == [lit |-> TRUE, c |-> c, g |-> 0]
TRef(k) == [lit |-> FALSE, c |-> "", g |-> k]

RECURSIVE ParseTemplate(_, _, _, _)
ParseTemplate(tmpl, i, groups, acc) ==
  IF i > Len(tmpl) THEN [err |-> "none", parts |-> acc]
  ELSE IF tmpl[i] # "\\" THEN ParseTemplate(tmpl, i + 1, groups, Append(acc, TLit(tmpl[i])))
  ELSE
    LET e == At(tmpl, i + 1) IN
    IF e = "" THEN [err |-> "re.error", parts |-> <<>>]
    ELSE IF e = "\\" THEN ParseTemplate(tmpl, i + 2, groups, Append(acc, TLit("\\")))
    ELSE IF e \in DigitChars \ {"0"} THEN
      IF DigitVal(e) > groups THEN [err |-> "re.error", parts |-> <<>>]
      ELSE ParseTemplate(tmpl, i + 2, groups, Append(acc, TRef(DigitVal(e))))
    ELSE IF e \in (UpperChars \cup LowerChars \cup DigitChars) THEN
      [err |-> "re.error", parts |-> <<>>]            \* bad escape
    ELSE ParseTemplate(tmpl, i + 2, groups, acc \o <<TLit("\\"), TLit(e)>>)

RECURSIVE Expand(_, _, _, _)
Expand(parts, k, name, m) ==
  IF k > Len(parts) THEN <<>>
  ELSE (IF parts[k].lit THEN <<parts[k].c>> ELSE MatchGroup(name, m, parts[k].g))
       \o Expand(parts, k + 1, name, m)

RECURSIVE SubLoop(_, _, _, _, _, _)

\* m is the next match: the text before it, its expansion, then the rest
SubMatch(re, parts, name, copied, m) ==
  IF ~m.ok THEN SubSeq(name, copied, Len(name))
  ELSE SubSeq(name, copied, m.s - 1) \o Expand(parts, 1, name, m)
       \o SubLoop(re, parts, name, m.e, m.e, m.e = m.s)

SubLoop(re, parts, name, copied, start, mustAdvance) ==
  SubMatch(re, parts, name, copied, SearchFrom(re, name, start, mustAdvance))

SubTemplate(re, t, string) ==
  IF t.err # "none" THEN RaiseS("re.error")
  ELSE OkS(SubLoop(re, t.parts, string, 1, 1, FALSE))

SubCompiled(re, repl, string) ==
  IF re.err # "none" THEN RaiseS("re.error")
  ELSE SubTemplate(re, ParseTemplate(repl, 1, re.groups, <<>>), string)

\* re.sub(pattern, repl, string) with a str repl
re_sub(pattern, repl, string) == SubCompiled(re_compile(pattern), repl, string)

(***************************************************************************)
(* Python dicts are records; a key the dict lacks is a field the record    *)
(* lacks.                                                                  *)
(***************************************************************************)
dict_get(d, k, default) == IF k \in DOMAIN d THEN d[k] ELSE default

RECURSIVE IntToStr(_)
IntToStr(n) ==
  IF n < 10 THEN <<CharTable[Ord["0"] + n]>>
  ELSE IntToStr(n \div 10) \o <<CharTable[Ord["0"] + (n % 10)]>>

RECURSIVE StrToInt(_, _)
StrToInt(s, acc) ==
  IF s = <<>> THEN acc ELSE StrToInt(Tail(s), 10 * acc + DigitVal(Head(s)))

(***************************************************************************)
(* The program's pattern and template literals                             *)
(***************************************************************************)
JOB_NUMBER_RE == <<"\\", "d", "{", "5", "}">>
CUSTOMER_RE == 
  <<"[", "A", "-", "Z", "]", "[", "a", "-", "z", "]", "+", "(", "?", ":",
  "\\", "s", "+", "[", "A", "-", "Z", "]", "[", "a", "-", "z", "]", "+",
  ")", "*">>
DATE_RE == 
  <<"\\", "d", "{", "1", ",", "2", "}", "[", "/", "\\", "-", "]", "\\", "d",
  "{", "1", ",", "2", "}", "[", "/", "\\", "-", "]", "\\", "d", "{", "2",
  ",", "4", "}", "|", "\\", "d", "{", "4", "}", "[", "/", "\\", "-", "]",
  "\\", "d", "{", "1", ",", "2", "}", "[", "/", "\\", "-", "]", "\\", "d",
  "{", "1", ",", "2", "}">>
CUSTOMER_GROUP_RE == <<"(">> \o CUSTOMER_RE \o <<")">>
DATE_GROUP_RE == <<"(">> \o DATE_RE \o <<")">>
DOLLAR_ONE == <<"$", "1">>

PH_DIGITS_RE == <<"\\", "{", "d", "(", "\\", "d", "+", ")", "\\", "}">>
PH_CUSTOMER_RE == <<"\\", "{", "c", "u", "s", "t", "o", "m", "e", "r", "\\", "}">>
PH_DATE_RE == <<"\\", "{", "d", "a", "t", "e", "\\", "}">>
PH_WORD_RE == <<"\\", "{", "w", "o", "r", "d", "\\", "}">>
PH_TEXT_RE == <<"\\", "{", "t", "e", "x", "t", "\\", "}">>

\* the str templates of convert_intuitive_pattern, as written in its source
TPL_DIGITS == <<"(", "\\", "\\", "d", "{", "\\", "1", "}", ")">>
TPL_CUSTOMER == 
  <<"(", "[", "A", "-", "Z", "]", "[", "a", "-", "z", "]", "+", "(", "?",
  ":", "\\", "s", "+", "[", "A", "-", "Z", "]", "[", "a", "-", "z", "]",
  "+", ")", "*", ")">>
TPL_DATE == 
  <<"(", "\\", "\\", "d", "{", "1", ",", "2", "}", "[", "/", "\\", "\\",
  "-", "]", "\\", "\\", "d", "{", "1", ",", "2", "}", "[", "/", "\\", "\\",
  "-", "]", "\\", "\\", "d", "{", "2", ",", "4", "}", "|", "\\", "\\", "d",
  "{", "4", "}", "[", "/", "\\", "\\", "-", "]", "\\", "\\", "d", "{", "1",
  ",", "2", "}", "[", "/", "\\", "\\", "-", "]", "\\", "\\", "d", "{", "1",
  ",", "2", "}", ")">>
TPL_WORD == <<"(", "\\", "\\", "w", "+", ")">>
TPL_TEXT == <<"(", ".", "+", ")">>

\* the strings the callbacks of apply_intuitive_replacement return
GRP_CUSTOMER == 
  <<"(", "[", "A", "-", "Z", "]", "[", "a", "-", "z", "]", "+", "(", "?",
  ":", "\\", "s", "+", "[", "A", "-", "Z", "]", "[", "a", "-", "z", "]",
  "+", ")", "*", ")">>
GRP_DATE == 
  <<"(", "\\", "d", "{", "1", ",", "2", "}", "[", "/", "\\", "-", "]", "\\",
  "d", "{", "1", ",", "2", "}", "[", "/", "\\", "-", "]", "\\", "d", "{",
  "2", ",", "4", "}", "|", "\\", "d", "{", "4", "}", "[", "/", "\\", "-",
  "]", "\\", "d", "{", "1", ",", "2", "}", "[", "/", "\\", "-", "]", "\\",
  "d", "{", "1", ",", "2", "}", ")">>
GRP_WORD == <<"(", "\\", "w", "+", ")">>
GRP_TEXT == <<"(", ".", "+", ")">>

(***************************************************************************)
(* Calls into the re module from a scope where the name re is bound or     *)
(* not: an unbound name raises NameError before anything else happens.     *)
(***************************************************************************)
\* re.compile(pattern).search(name): [err, m]
SearchCompiled(re, name) ==
  IF re.err # "none" THEN [err |-> "re.error", m |-> NoMatch]
  ELSE [err |-> "none", m |-> re_search(re, name)]

CompileSearch(pattern, name) == SearchCompiled(re_compile(pattern), name)

Truth(x) == IF x.err # "none" THEN RaiseB(x.err) ELSE OkB(x.m.ok)

\* bool(re.search(pattern, name))
PySearch(bound, pattern, name) ==
  IF ~bound THEN RaiseB("NameError") ELSE Truth(CompileSearch(pattern, name))

\* re.sub(pattern, repl, string) with a str repl
PySub(bound, pattern, repl, string) ==
  IF ~bound THEN RaiseS("NameError") ELSE re_sub(pattern, repl, string)

\* re.search(pattern, name).group(k), or no match: [err, found, val]
GroupOf(x, name, k) ==
  IF x.err # "none" THEN [err |-> x.err, found |-> FALSE, val |-> <<>>]
  ELSE IF ~x.m.ok THEN [err |-> "none", found |-> FALSE, val |-> <<>>]
  ELSE [err |-> "none", found |-> TRUE, val |-> MatchGroup(name, x.m, k)]

PyExtract(bound, pattern, name, k) ==
  IF ~bound THEN [err |-> "NameError", found |-> FALSE, val |-> <<>>]
  ELSE GroupOf(CompileSearch(pattern, name), name, k)

\* try: <r>  except re.error: <fallback>
ExceptReError(r, fallback) == IF r.err = "re.error" THEN fallback ELSE r

(***************************************************************************)
(* convert_intuitive_pattern: five re.sub passes with str templates, then  *)
(* re.compile.  Returns [err, re].                                         *)
(***************************************************************************)
ConvertFail(e) == [err |-> e, re |-> re_compile(<<>>)]

\* the five statements regex_pattern = re.sub(<ph>, <tpl>, regex_pattern), in
\* the order they are written
CONVERT_PASSES ==
  << <<PH_DIGITS_RE, TPL_DIGITS>>, <<PH_CUSTOMER_RE, TPL_CUSTOMER>>,
     <<PH_DATE_RE, TPL_DATE>>, <<PH_WORD_RE, TPL_WORD>>, <<PH_TEXT_RE, TPL_TEXT>> >>

ConvertCompiled(re) ==
  IF re.err # "none" THEN ConvertFail("re.error") ELSE [err |-> "none", re |-> re]

RECURSIVE ConvertFrom(_, _, _)

\* r is what pass k returned or raised
ConvertPass(bound, r, k) ==
  IF r.err # "none" THEN ConvertFail(r.err) ELSE ConvertFrom(bound, r.val, k + 1)

ConvertFrom(bound, regex_pattern, k) ==
  IF k > Len(CONVERT_PASSES) THEN ConvertCompiled(re_compile(regex_pattern))
  ELSE ConvertPass(bound,
         PySub(bound, CONVERT_PASSES[k][1], CONVERT_PASSES[k][2], regex_pattern), k)

ConvertIntuitive(bound, pattern) == ConvertFrom(bound, pattern, 1)

(***************************************************************************)
(* apply_intuitive_replacement: five re.sub passes with callbacks that     *)
(* append to captures, re.compile and search inside try/except re.error,   *)
(* then one re.sub on the replacement per capture.                         *)
(***************************************************************************)
TYPE_DIGITS == <<"d", "i", "g", "i", "t", "s">>
TYPE_CUSTOMER == <<"c", "u", "s", "t", "o", "m", "e", "r">>
TYPE_DATE == <<"d", "a", "t", "e">>
TYPE_WORD == <<"w", "o", "r", "d">>
TYPE_TEXT == <<"t", "e", "x", "t">>

replace_digits(string, m) ==
  LET digits == StrToInt(MatchGroup(string, m, 1), 0) IN
  [cap |-> [type |-> TYPE_DIGITS, count |-> digits],
   ret |-> <<"(", "\\", "d", "{">> \o IntToStr(digits) \o <<"}", ")">>]

replace_customer(string, m) == [cap |-> [type |-> TYPE_CUSTOMER], ret |-> GRP_CUSTOMER]
replace_date(string, m) == [cap |-> [type |-> TYPE_DATE], ret |-> GRP_DATE]
replace_word(string, m) == [cap |-> [type |-> TYPE_WORD], ret |-> GRP_WORD]
replace_text(string, m) == [cap |-> [type |-> TYPE_TEXT], ret |-> GRP_TEXT]

Callback(which, string, m) ==
  IF which = "digits" THEN replace_digits(string, m)
  ELSE IF which = "customer" THEN replace_customer(string, m)
  ELSE IF which = "date" THEN replace_date(string, m)
  ELSE IF which = "word" THEN replace_word(string, m)
  ELSE replace_text(string, m)

\* re.sub(pattern, callback, string): the callback runs once per match, left
\* to right; what it returns is inserted as it is
RECURSIVE SubCallLoop(_, _, _, _, _, _)

SubCallJoin(string, copied, m, cb, rest) ==
  [out |-> SubSeq(string, copied, m.s - 1) \o cb.ret \o rest.out,
   caps |-> <<cb.cap>> \o rest.caps]

SubCallMatch(re, which, string, copied, m) ==
  IF ~m.ok THEN [out |-> SubSeq(string, copied, Len(string)), caps |-> <<>>]
  ELSE SubCallJoin(string, copied, m, Callback(which, string, m),
                   SubCallLoop(re, which, string, m.e, m.e, m.e = m.s))

SubCallLoop(re, which, string, copied, start, mustAdvance) ==
  SubCallMatch(re, which, string, copied, SearchFrom(re, string, start, mustAdvance))

SubCall(pattern, which, string) ==
  SubCallLoop(re_compile(pattern), which, string, 1, 1, FALSE)

\* the pattern f"\\{{{capture['count']}\\}}" or f"\\{{{capture['type']}\\}}"
TokenPattern(capture) ==
  <<"\\", "{">>
  \o (IF capture.type = TYPE_DIGITS THEN IntToStr(capture.count) ELSE capture.type)
  \o <<"\\", "}">>

RECURSIVE SubstituteCaptures(_, _, _, _, _)

\* r is what re.sub returned or raised for capture i
Substituted(captures, i, name, m, r) ==
  IF r.err # "none" THEN r ELSE SubstituteCaptures(captures, i + 1, name, m, r.val)

SubstituteCaptures(captures, i, name, m, result) ==
  IF i > Len(captures) THEN OkS(result)
  ELSE IF m.caps[i] = <<0, 0>> THEN RaiseS("TypeError")   \* value is None
  ELSE Substituted(captures, i, name, m,
                   re_sub(TokenPattern(captures[i]), MatchGroup(name, m, i), result))

\* the five statements regex_pattern = re.sub(<ph>, <callback>, regex_pattern),
\* in the order they are written
CAPTURE_PASSES ==
  << <<PH_DIGITS_RE, "digits">>, <<PH_CUSTOMER_RE, "customer">>,
     <<PH_DATE_RE, "date">>, <<PH_WORD_RE, "word">>, <<PH_TEXT_RE, "text">> >>

RECURSIVE CapturesFrom(_, _, _)

CapturePass(p, captures, k) == CapturesFrom(p.out, captures \o p.caps, k + 1)

CapturesFrom(regex_pattern, captures, k) ==
  IF k > Len(CAPTURE_PASSES)
    THEN [regex_pattern |-> regex_pattern, captures |-> captures]
    ELSE CapturePass(SubCall(CAPTURE_PASSES[k][1], CAPTURE_PASSES[k][2], regex_pattern),
                     captures, k)

\* the regex text and the capture list that apply_intuitive_replacement builds
IntuitiveCaptures(pattern) == CapturesFrom(pattern, <<>>, 1)

\* x is the outcome of compiled.search(name) inside the try block
ApplyMatch(x, captures, name, replacement) ==
  IF x.err # "none" \/ ~x.m.ok THEN OkS(name)
  ELSE ExceptReError(SubstituteCaptures(captures, 1, name, x.m, replacement), OkS(name))

ApplyCaptures(c, name, replacement) ==
  ApplyMatch(CompileSearch(c.regex_pattern, name), c.captures, name, replacement)

ApplyIntuitive(bound, name, pattern, replacement) ==
  IF ~bound THEN RaiseS("NameError")
  ELSE ApplyCaptures(IntuitiveCaptures(pattern), name, replacement)

\* replacement.replace('$1', <extracted text>) if the search found it, else name
\* bool(intuitive_regex.search(name)) once convert_intuitive_pattern returned
IntuitiveSearch(intuitive_regex, name) ==
  IF intuitive_regex.err # "none" THEN RaiseB(intuitive_regex.err)
  ELSE OkB(re_search(intuitive_regex.re, name).ok)

ExtractInto(x, replacement, name) ==
  IF x.err # "none" THEN RaiseS(x.err)
  ELSE IF x.found THEN OkS(str_replace(replacement, DOLLAR_ONE, x.val))
  ELSE OkS(name)

(***************************************************************************)
(* Scanner path: the helpers nested in scan_customer_folder.  The module   *)
(* imports os, json, datetime and pathlib; "import re" is a statement of   *)
(* apply_naming_conditions, so re is a local name of that function alone   *)
(* and is unbound in the sibling helpers that use it.                      *)
(***************************************************************************)
scanner_re_bound == FALSE

convert_intuitive_pattern(pattern) == ConvertIntuitive(scanner_re_bound, pattern)

apply_intuitive_replacement(name, pattern, replacement) ==
  ApplyIntuitive(scanner_re_bound, name, pattern, replacement)

\* the matcher with a kind it does not know never matching
MatchesConditionUnknownNever(name, pattern, condition_type) ==
  IF condition_type = "contains" THEN OkB(str_in(pattern, name))
  ELSE IF condition_type = "startswith" THEN OkB(str_startswith(name, pattern))
  ELSE IF condition_type = "endswith" THEN OkB(str_endswith(name, pattern))
  ELSE IF condition_type = "equals" THEN OkB(name = pattern)
  ELSE IF condition_type = "regex" THEN
    ExceptReError(PySearch(scanner_re_bound, pattern, name), OkB(FALSE))
  ELSE IF condition_type = "extract_job_number" THEN
    PySearch(scanner_re_bound, JOB_NUMBER_RE, name)
  ELSE IF condition_type = "extract_customer" THEN
    PySearch(scanner_re_bound, CUSTOMER_RE, name)
  ELSE IF condition_type = "extract_date" THEN
    PySearch(scanner_re_bound, DATE_RE, name)
  ELSE IF condition_type = "intuitive" THEN
    IntuitiveSearch(convert_intuitive_pattern(pattern), name)
  ELSE IF condition_type = "not_contains" THEN OkB(~str_in(pattern, name))
  ELSE IF condition_type = "not_startswith" THEN OkB(~str_startswith(name, pattern))
  ELSE IF condition_type = "not_endswith" THEN OkB(~str_endswith(name, pattern))
  ELSE IF condition_type = "not_equals" THEN OkB(name # pattern)
  ELSE OkB(FALSE)

matches_condition(name, pattern, condition_type) ==
  IF condition_type = "contains" THEN OkB(str_in(pattern, name))
  ELSE IF condition_type = "startswith" THEN OkB(str_startswith(name, pattern))
  ELSE IF condition_type = "endswith" THEN OkB(str_endswith(name, pattern))
  ELSE IF condition_type = "equals" THEN OkB(name = pattern)
  ELSE IF condition_type = "regex" THEN
    ExceptReError(PySearch(scanner_re_bound, pattern, name), OkB(FALSE))
  ELSE IF condition_type = "extract_job_number" THEN
    PySearch(scanner_re_bound, JOB_NUMBER_RE, name)
  ELSE IF condition_type = "extract_customer" THEN
    PySearch(scanner_re_bound, CUSTOMER_RE, name)
  ELSE IF condition_type = "extract_date" THEN
    PySearch(scanner_re_bound, DATE_RE, name)
  ELSE IF condition_type = "intuitive" THEN
    IntuitiveSearch(convert_intuitive_pattern(pattern), name)
  ELSE IF condition_type = "not_contains" THEN OkB(~str_in(pattern, name))
  ELSE IF condition_type = "not_startswith" THEN OkB(~str_startswith(name, pattern))
  ELSE IF condition_type = "not_endswith" THEN OkB(~str_endswith(name, pattern))
  ELSE IF condition_type = "not_equals" THEN OkB(name # pattern)
  ELSE OkB(str_in(pattern, name))

RECURSIVE ChainLoop(_, _, _, _)

\* the pass with the OR branch taken for AND
ChainStepOrAsAnd(name, chains, k, result, chain_match) ==
  LET operator == dict_get(chains[k], "operator", "AND") IN
  IF chain_match.err # "none" THEN chain_match
  ELSE IF operator = "AND" THEN ChainLoop(name, chains, k + 1, result /\ chain_match.val)
  ELSE IF operator = "OR" THEN ChainLoop(name, chains, k + 1, result /\ chain_match.val)
  ELSE ChainLoop(name, chains, k + 1, result)

\* the pass with every operator value other than OR taken for AND
ChainStepUnknownAsAnd(name, chains, k, result, chain_match) ==
  LET operator == dict_get(chains[k], "operator", "AND") IN
  IF chain_match.err # "none" THEN chain_match
  ELSE IF operator = "OR" THEN ChainLoop(name, chains, k + 1, result \/ chain_match.val)
  ELSE ChainLoop(name, chains, k + 1, result /\ chain_match.val)

\* one pass of the loop over chains, chain_match being the link's own test
ChainStep(name, chains, k, result, chain_match) ==
  LET operator == dict_get(chains[k], "operator", "AND") IN
  IF chain_match.err # "none" THEN chain_match
  ELSE IF operator = "AND" THEN ChainLoop(name, chains, k + 1, result /\ chain_match.val)
  ELSE IF operator = "OR" THEN ChainLoop(name, chains, k + 1, result \/ chain_match.val)
  ELSE ChainLoop(name, chains, k + 1, result)

ChainLoop(name, chains, k, result) ==
  IF k > Len(chains) THEN OkB(result)
  ELSE ChainStep(name, chains, k, result,
                 matches_condition(name, chains[k].pattern, chains[k].type))

\* the part of matches_condition_with_chains after main_match is computed
ChainFrom(name, chains, main_match) ==
  IF main_match.err # "none" THEN main_match
  ELSE IF chains = <<>> THEN main_match
  ELSE ChainLoop(name, chains, 1, main_match.val)

matches_condition_with_chains(name, pattern, condition_type, chains) ==
  ChainFrom(name, chains, matches_condition(name, pattern, condition_type))

\* the replacer without the prefix and suffix tests
ApplyReplacementUnguarded(name, pattern, replacement, condition_type) ==
  IF condition_type = "contains" THEN OkS(str_replace(name, pattern, replacement))
  ELSE IF condition_type = "startswith" THEN
    OkS(str_replace(name, pattern, replacement))
  ELSE IF condition_type = "endswith" THEN
    OkS(str_replace(name, pattern, replacement))
  ELSE IF condition_type = "equals" THEN OkS(replacement)
  ELSE IF condition_type = "regex" THEN
    ExceptReError(PySub(scanner_re_bound, pattern, replacement, name), OkS(name))
  ELSE IF condition_type = "extract_job_number" THEN
    ExtractInto(PyExtract(scanner_re_bound, JOB_NUMBER_RE, name, 0), replacement, name)
  ELSE IF condition_type = "extract_customer" THEN
    ExtractInto(PyExtract(scanner_re_bound, CUSTOMER_GROUP_RE, name, 1), replacement, name)
  ELSE IF condition_type = "extract_date" THEN
    ExtractInto(PyExtract(scanner_re_bound, DATE_GROUP_RE, name, 1), replacement, name)
  ELSE IF condition_type = "intuitive" THEN
    apply_intuitive_replacement(name, pattern, replacement)
  ELSE IF condition_type \in {"not_contains", "not_startswith", "not_endswith", "not_equals"} THEN
    OkS(replacement)
  ELSE OkS(str_replace(name, pattern, replacement))

apply_replacement(name, pattern, replacement, condition_type) ==
  IF condition_type = "contains" THEN OkS(str_replace(name, pattern, replacement))
  ELSE IF condition_type = "startswith" THEN
    OkS(IF str_startswith(name, pattern) THEN str_replace(name, pattern, replacement) ELSE name)
  ELSE IF condition_type = "endswith" THEN
    OkS(IF str_endswith(name, pattern) THEN str_replace(name, pattern, replacement) ELSE name)
  ELSE IF condition_type = "equals" THEN OkS(replacement)
  ELSE IF condition_type = "regex" THEN
    ExceptReError(PySub(scanner_re_bound, pattern, replacement, name), OkS(name))
  ELSE IF condition_type = "extract_job_number" THEN
    ExtractInto(PyExtract(scanner_re_bound, JOB_NUMBER_RE, name, 0), replacement, name)
  ELSE IF condition_type = "extract_customer" THEN
    ExtractInto(PyExtract(scanner_re_bound, CUSTOMER_GROUP_RE, name, 1), replacement, name)
  ELSE IF condition_type = "extract_date" THEN
    ExtractInto(PyExtract(scanner_re_bound, DATE_GROUP_RE, name, 1), replacement, name)
  ELSE IF condition_type = "intuitive" THEN
    apply_intuitive_replacement(name, pattern, replacement)
  ELSE IF condition_type \in {"not_contains", "not_startswith", "not_endswith", "not_equals"} THEN
    OkS(replacement)
  ELSE OkS(str_replace(name, pattern, replacement))

RECURSIVE ApplyLoop(_, _, _)

\* one pass of the loop over conditions for an enabled condition, matched
\* being what matches_condition_with_chains returned or raised
ApplyStep(name, conditions, k, matched) ==
  IF matched.err # "none" THEN RaiseS(matched.err)
  ELSE IF matched.val
    THEN apply_replacement(name, conditions[k].pattern, conditions[k].replacement,
                           dict_get(conditions[k], "type", "contains"))
    ELSE ApplyLoop(name, conditions, k + 1)

\* the loop without its test of the enabled flag
ApplyLoopIgnoringEnabled(name, conditions, k) ==
  IF k > Len(conditions) THEN OkS(name)
  ELSE ApplyStep(name, conditions, k,
         matches_condition_with_chains(name, conditions[k].pattern,
                                       dict_get(conditions[k], "type", "contains"),
                                       dict_get(conditions[k], "chains", <<>>)))

ApplyLoop(name, conditions, k) ==
  IF k > Len(conditions) THEN OkS(name)
  ELSE IF ~dict_get(conditions[k], "enabled", TRUE) THEN ApplyLoop(name, conditions, k + 1)
  ELSE ApplyStep(name, conditions, k,
         matches_condition_with_chains(name, conditions[k].pattern,
                                       dict_get(conditions[k], "type", "contains"),
                                       dict_get(conditions[k], "chains", <<>>)))

apply_naming_conditions(name, conditions) == ApplyLoop(name, conditions, 1)

(***************************************************************************)
(* Bulk path: the helpers nested in apply_naming_conditions_to_structure   *)
(* of database.py, which imports re in the enclosing function.             *)
(***************************************************************************)
db_re_bound == TRUE

db_convert_intuitive_pattern(pattern) == ConvertIntuitive(db_re_bound, pattern)

db_apply_intuitive_replacement(name, pattern, replacement) ==
  ApplyIntuitive(db_re_bound, name, pattern, replacement)

db_matches_condition(name, pattern, condition_type) ==
  IF condition_type = "contains" THEN OkB(str_in(pattern, name))
  ELSE IF condition_type = "startswith" THEN OkB(str_startswith(name, pattern))
  ELSE IF condition_type = "endswith" THEN OkB(str_endswith(name, pattern))
  ELSE IF condition_type = "equals" THEN OkB(name = pattern)
  ELSE IF condition_type = "regex" THEN
    ExceptReError(PySearch(db_re_bound, pattern, name), OkB(FALSE))
  ELSE IF condition_type = "intuitive" THEN
    IntuitiveSearch(db_convert_intuitive_pattern(pattern), name)
  ELSE IF condition_type = "extract_job_number" THEN
    PySearch(db_re_bound, JOB_NUMBER_RE, name)
  ELSE IF condition_type = "extract_customer" THEN
    PySearch(db_re_bound, CUSTOMER_RE, name)
  ELSE IF condition_type = "extract_date" THEN
    PySearch(db_re_bound, DATE_RE, name)
  ELSE OkB(str_in(pattern, name))

RECURSIVE db_ChainLoop(_, _, _, _)

\* the pass with AND binding tighter than OR: a failed AND link does not
\* undo a result that an earlier operand made true
db_ChainStepPrecedence(name, chains, k, result, chain_match) ==
  LET operator == dict_get(chains[k], "operator", "AND") IN
  IF chain_match.err # "none" THEN chain_match
  ELSE IF operator = "AND" THEN
    db_ChainLoop(name, chains, k + 1,
                 IF k > 1 /\ dict_get(chains[k - 1], "operator", "AND") = "OR"
                   THEN result ELSE result /\ chain_match.val)
  ELSE IF operator = "OR" THEN db_ChainLoop(name, chains, k + 1, result \/ chain_match.val)
  ELSE db_ChainLoop(name, chains, k + 1, result)

\* one pass of the loop over chains, chain_match being the link's own test
db_ChainStep(name, chains, k, result, chain_match) ==
  LET operator == dict_get(chains[k], "operator", "AND") IN
  IF chain_match.err # "none" THEN chain_match
  ELSE IF operator = "AND" THEN db_ChainLoop(name, chains, k + 1, result /\ chain_match.val)
  ELSE IF operator = "OR" THEN db_ChainLoop(name, chains, k + 1, result \/ chain_match.val)
  ELSE db_ChainLoop(name, chains, k + 1, result)

db_ChainLoop(name, chains, k, result) ==
  IF k > Len(chains) THEN OkB(result)
  ELSE db_ChainStep(name, chains, k, result,
                 db_matches_condition(name, chains[k].pattern, chains[k].type))

\* the part of matches_condition_with_chains after main_match is computed
db_ChainFrom(name, chains, main_match) ==
  IF main_match.err # "none" THEN main_match
  ELSE IF chains = <<>> THEN main_match
  ELSE db_ChainLoop(name, chains, 1, main_match.val)

db_matches_condition_with_chains(name, pattern, condition_type, chains) ==
  db_ChainFrom(name, chains, db_matches_condition(name, pattern, condition_type))

db_apply_replacement(name, pattern, replacement, condition_type) ==
  IF condition_type = "contains" THEN OkS(str_replace(name, pattern, replacement))
  ELSE IF condition_type = "startswith" THEN
    OkS(IF str_startswith(name, pattern) THEN str_replace(name, pattern, replacement) ELSE name)
  ELSE IF condition_type = "endswith" THEN
    OkS(IF str_endswith(name, pattern) THEN str_replace(name, pattern, replacement) ELSE name)
  ELSE IF condition_type = "equals" THEN OkS(replacement)
  ELSE IF condition_type = "regex" THEN
    ExceptReError(PySub(db_re_bound, pattern, replacement, name), OkS(name))
  ELSE IF condition_type = "intuitive" THEN
    db_apply_intuitive_replacement(name, pattern, replacement)
  ELSE IF condition_type = "extract_job_number" THEN
    ExtractInto(PyExtract(db_re_bound, JOB_NUMBER_RE, name, 0), replacement, name)
  ELSE IF condition_type = "extract_customer" THEN
    ExtractInto(PyExtract(db_re_bound, CUSTOMER_GROUP_RE, name, 1), replacement, name)
  ELSE IF condition_type = "extract_date" THEN
    ExtractInto(PyExtract(db_re_bound, DATE_GROUP_RE, name, 1), replacement, name)
  ELSE OkS(str_replace(name, pattern, replacement))

\* apply_condition_to_item: the condition's output for the item's name
ItemReplace(item, condition, matched) ==
  IF matched.err # "none" THEN RaiseS(matched.err)
  ELSE IF matched.val
    THEN db_apply_replacement(item.name, condition.pattern, condition.replacement,
                              condition.type)
    ELSE OkS(item.name)

apply_condition_to_item(item, condition) ==
  ItemReplace(item, condition,
    db_matches_condition_with_chains(item.name, condition.pattern, condition.type,
                                     dict_get(condition, "chains", <<>>)))

\* the inner loop over the conditions for one item: [err, item]
RECURSIVE ItemLoop(_, _, _)

\* the pass writing the condition's output into the name as well
ItemStepRenaming(item, conditions, k, new_alias) ==
  IF new_alias.err # "none" THEN [err |-> new_alias.err, item |-> item]
  ELSE IF new_alias.val # item.name
    THEN ItemLoop([item EXCEPT !.alias = new_alias.val, !.name = new_alias.val],
                  conditions, k + 1)
  ELSE ItemLoop(item, conditions, k + 1)

\* the pass assigning every output, also one equal to the name
ItemStepResetting(item, conditions, k, new_alias) ==
  IF new_alias.err # "none" THEN [err |-> new_alias.err, item |-> item]
  ELSE ItemLoop([item EXCEPT !.alias = new_alias.val], conditions, k + 1)

\* new_alias is what apply_condition_to_item returned or raised for condition k
ItemStep(item, conditions, k, new_alias) ==
  IF new_alias.err # "none" THEN [err |-> new_alias.err, item |-> item]
  ELSE IF new_alias.val # item.name
    THEN ItemLoop([item EXCEPT !.alias = new_alias.val], conditions, k + 1)
  ELSE ItemLoop(item, conditions, k + 1)

ItemLoop(item, conditions, k) ==
  IF k > Len(conditions) THEN [err |-> "none", item |-> item]
  ELSE IF ~dict_get(conditions[k], "enabled", TRUE) THEN ItemLoop(item, conditions, k + 1)
  ELSE ItemStep(item, conditions, k, apply_condition_to_item(item, conditions[k]))

\* the outer loop over the items; the list is updated in place, so an
\* exception leaves the items already visited updated: [err, data]
RECURSIVE StructureLoop(_, _, _)

StructureStep(structure_data, conditions, i, r) ==
  IF r.err # "none" THEN [err |-> r.err, data |-> [structure_data EXCEPT ![i] = r.item]]
  ELSE StructureLoop([structure_data EXCEPT ![i] = r.item], conditions, i + 1)

StructureLoop(structure_data, conditions, i) ==
  IF i > Len(structure_data) THEN [err |-> "none", data |-> structure_data]
  ELSE StructureStep(structure_data, conditions, i,
                     ItemLoop(structure_data[i], conditions, 1))

apply_naming_conditions_to_structure(structure_data, conditions) ==
  StructureLoop(structure_data, conditions, 1)

\* the calls of apply_condition_to_item the loops make: one per enabled
\* condition and item, up to the call that raises
RECURSIVE ItemCalls(_, _, _)
ItemCalls(item, conditions, k) ==
  IF k > Len(conditions) THEN 0
  ELSE IF ~dict_get(conditions[k], "enabled", TRUE) THEN ItemCalls(item, conditions, k + 1)
  ELSE IF apply_condition_to_item(item, conditions[k]).err # "none" THEN 1
  ELSE 1 + ItemCalls(item, conditions, k + 1)

RECURSIVE StructureCalls(_, _, _)
StructureCalls(structure_data, conditions, i) ==
  IF i > Len(structure_data) THEN 0
  ELSE IF ItemLoop(structure_data[i], conditions, 1).err # "none"
    THEN ItemCalls(structure_data[i], conditions, 1)
  ELSE ItemCalls(structure_data[i], conditions, 1)
       + StructureCalls(structure_data, conditions, i + 1)

(***************************************************************************)
(* The filesystem.  A node is [name, dir, kids, denied]: kids is the set   *)
(* of nodes os.listdir finds in a directory, denied says that os.listdir   *)
(* of it raises PermissionError.                                           *)
(***************************************************************************)
File(name) == [name |-> name, dir |-> FALSE, kids |-> {}, denied |-> FALSE]
Folder(name, kids, denied) == [name |-> name, dir |-> TRUE, kids |-> kids, denied |-> denied]

\* a < b for str: by code point, a proper prefix first
RECURSIVE StrLess(_, _)
StrLess(a, b) ==
  IF b = <<>> THEN FALSE
  ELSE IF a = <<>> THEN TRUE
  ELSE IF Head(a) = Head(b) THEN StrLess(Tail(a), Tail(b))
  ELSE Ord[Head(a)] < Ord[Head(b)]

\* items = os.listdir(path); items.sort()
RECURSIVE SortedItems(_)
SortedItems(kids) ==
  IF kids = {} THEN <<>>
  ELSE LET first == CHOOSE n \in kids : \A o \in kids \ {n} : StrLess(n.name, o.name) IN
       <<first>> \o SortedItems(kids \ {first})

\* os.path.splitext(item) for a name without separators
splitext(item) ==
  LET dots == { i \in 1..Len(item) : item[i] = "." }
      dotIndex == IF dots = {} THEN 0 ELSE CHOOSE i \in dots : \A j \in dots : j <= i IN
  IF dotIndex > 0 /\ \E j \in 1..(dotIndex - 1) : item[j] # "."
    THEN [root |-> SubSeq(item, 1, dotIndex - 1), ext |-> SubSeq(item, dotIndex, Len(item))]
    ELSE [root |-> item, ext |-> <<>>]

\* os.path.join(relative_path, item) if relative_path else item
JoinPath(relative_path, item) ==
  IF relative_path = <<>> THEN item ELSE relative_path \o <<"/">> \o item

(***************************************************************************)
(* routes/job_structure.py: the web application's scan, whose result is    *)
(* the structure_data the bulk path is later applied to.                   *)
(***************************************************************************)
RECURSIVE LStrip(_)
LStrip(s) == IF s # <<>> /\ Head(s) \in SpaceChars THEN LStrip(Tail(s)) ELSE s

RECURSIVE RStrip(_)
RStrip(s) ==
  IF s # <<>> /\ s[Len(s)] \in SpaceChars THEN RStrip(SubSeq(s, 1, Len(s) - 1)) ELSE s

SMART_JOB_RE == <<"^", "\\", "d", "+", "[", "-", "\\", "s", "]", "*", "[", "A", "-", "Z", "]", "*", "[", "-", "\\", "s", "]", "*">>
SMART_REV_RE == <<"[", "-", "\\", "s", "]", "*", "R", "\\", "d", "+">>
SMART_SPACE_RE == <<"\\", "s", "+">>

\* return alias if alias else filename
AliasOr(alias, filename) == IF alias = <<>> THEN filename ELSE alias

generateSmartAlias(filename) ==
  AliasOr(LStrip(RStrip(
            re_sub(SMART_SPACE_RE, <<" ">>,
              re_sub(SMART_REV_RE, <<>>,
                re_sub(SMART_JOB_RE, <<>>, filename).val).val).val)),
          filename)

FolderItem(item, path, alias) ==
  [type |-> "folder", name |-> item.name, path |-> path, included |-> TRUE, alias |-> alias]

FileItem(item, path, alias) ==
  [type |-> "file", name |-> item.name, file_name |-> splitext(item.name).root,
   file_extension |-> splitext(item.name).ext, path |-> path, included |-> TRUE,
   alias |-> alias]

\* the nested scan_directory of scan_directory_structure, from the sorted
\* listing of one directory on
RECURSIVE WalkItems(_, _)
WalkItems(items, relative_path) ==
  IF items = <<>> THEN <<>>
  ELSE
    LET item == Head(items)
        path == JoinPath(relative_path, item.name) IN
    (IF item.dir
       THEN <<FolderItem(item, path, item.name)>>
            \o (IF item.denied THEN <<>> ELSE WalkItems(SortedItems(item.kids), path))
       ELSE <<FileItem(item, path, generateSmartAlias(splitext(item.name).root))>>)
    \o WalkItems(Tail(items), relative_path)

scan_directory_structure(root_path) ==
  IF root_path.denied THEN <<>> ELSE WalkItems(SortedItems(root_path.kids), <<>>)

(***************************************************************************)
(* Inputs: folders to scan and rule lists                                  *)
(***************************************************************************)
MaxConds == 2      \* rules in a list drawn from ListPool
MaxChain == 2      \* links in a chain

N_foo == <<"f", "o", "o">>
N_bar == <<"b", "a", "r">>
N_job == <<"3", "5", "3", "9", "4", "-", "R", "1">>
N_ab12 == <<"a", "b", "-", "1", "2">>
N_locked == <<"l", "o", "c", "k", "e", "d">>
N_acme == <<"A", "c", "m", "e", " ", "3", "5", "3", "9", "4", " ", "D", "r", "a", "w", "i", "n", "g">>
N_six == <<"1", "2", "3", "4", "5", "6">>
N_date == <<"1", "-", "2", "-", "2", "4">>

TreeA ==
  Folder(<<"A">>, { File(N_foo \o <<".", "t", "x", "t">>), File(N_bar \o <<".", "t", "x", "t">>),
                    Folder(N_job, { File(N_ab12 \o <<".", "d", "w", "g">>) }, FALSE) }, FALSE)

TreeB ==
  Folder(<<"B">>, { Folder(N_locked, { File(N_bar) }, TRUE),
                    File(N_acme \o <<".", "p", "d", "f">>), File(N_bar), File(N_foo) }, FALSE)

\* a digit run longer than five, a date, a name that holds "o" but does not
\* start or end with it, and a second file with the same stem
N_box == <<"b", "o", "x">>

TreeC ==
  Folder(<<"C">>, { File(N_six), File(N_date \o <<".", "l", "o", "g">>), File(N_box),
                    Folder(<<"s", "u", "b">>, { File(N_box \o <<".", "l", "o", "g">>) }, FALSE) },
         FALSE)

Trees == { TreeA, TreeB, TreeC }

Kinds ==
  { "contains", "startswith", "endswith", "equals", "regex", "intuitive",
    "extract_job_number", "extract_customer", "extract_date",
    "not_contains", "not_startswith", "not_endswith", "not_equals",
    "sounds_like" }

P_o == <<"o">>
P_unclosed == <<"(", "u", "n", "c", "l", "o", "s", "e", "d">>
P_d5Rword == <<"{", "d", "5", "}", "-", "R", "{", "w", "o", "r", "d", "}">>
P_word_d2 == <<"{", "w", "o", "r", "d", "}", "-", "{", "d", "2", "}">>
P_word_paren == <<"{", "w", "o", "r", "d", "}", "(">>

Patterns == { P_o, N_foo, N_bar, <<>>, P_unclosed, P_d5Rword, P_word_d2, P_word_paren }

R_renamed == <<"r", "e", "n", "a", "m", "e", "d">>
R_job == <<"J", "o", "b", "-", "$", "1">>
R_rev == <<"{", "5", "}", "_", "r", "e", "v", "{", "w", "o", "r", "d", "}">>
R_swap == <<"{", "2", "}", "/", "{", "w", "o", "r", "d", "}">>

Replacements == { <<"X">>, R_renamed, R_job, R_rev, R_swap }

Cond(type, pattern, replacement) ==
  [type |-> type, pattern |-> pattern, replacement |-> replacement,
   chains |-> <<>>, enabled |-> TRUE]

\* the same rule as a record without the enabled key
NoEnabledKey(c) == [k \in DOMAIN c \ {"enabled"} |-> c[k]]

Disabled(c) == [c EXCEPT !.enabled = FALSE]

\* every kind with every pattern and replacement, one rule per list
Singles == { Cond(k, p, r) : k \in Kinds, p \in Patterns, r \in Replacements }

\* rules for the lists of several rules
ListPool ==
  { Cond("contains", P_o, <<"0">>),
    NoEnabledKey(Cond("contains", <<"f">>, <<"F">>)),
    Disabled(Cond("contains", <<>>, <<"Z">>)),
    Cond("startswith", <<"b">>, <<"B">>),
    Cond("equals", N_foo, R_renamed),
    Cond("not_equals", N_bar, R_renamed),
    Disabled(Cond("regex", P_unclosed, <<"x">>)),
    Cond("regex", P_o, <<"X">>),
    Disabled(Cond("intuitive", P_d5Rword, R_rev)),
    Cond("extract_job_number", <<>>, R_job),
    Cond("contains", P_o, P_o),
    Cond("sounds_like", <<"a">>, <<>>) }

RECURSIVE SeqsUpTo(_, _)
SeqsUpTo(S, n) ==
  IF n = 0 THEN { <<>> }
  ELSE LET shorter == SeqsUpTo(S, n - 1) IN
       shorter \cup { Append(q, x) : q \in shorter, x \in S }

Lists == SeqsUpTo(ListPool, MaxConds)

\* chain links: a literal test, a test that differs between names, a
\* malformed regex; with each operator value and without the key,
LinkTests ==
  { [pattern |-> P_o, type |-> "contains"],
    [pattern |-> N_bar, type |-> "equals"],
    [pattern |-> P_unclosed, type |-> "regex"] }

Operators == { "AND", "OR", "XOR" }

Link(t, op) == [pattern |-> t.pattern, type |-> t.type, operator |-> op]

\* and a link whose test raises on both paths, under an unrecognised operator
Links ==
  { Link(t, op) : t \in LinkTests, op \in Operators } \cup LinkTests
  \cup { Link([pattern |-> P_word_d2, type |-> "intuitive"], "XOR") }

ChainPrimaries ==
  { Cond("contains", <<"a">>, <<"A">>),
    Cond("startswith", <<"o">>, <<"0">>),
    Cond("not_equals", N_foo, R_renamed),
    Cond("extract_job_number", <<>>, R_job),
    Cond("endswith", <<"b">>, <<"B">>) }

\* what may follow a chained rule in the list
Followers == { <<>>, << Cond("contains", <<>>, <<"Z">>) >> }

Chained ==
  { << [c EXCEPT !.chains = ch] >> \o f :
      c \in ChainPrimaries, ch \in SeqsUpTo(Links, MaxChain) \ { <<>> }, f \in Followers }

CondLists == Lists \cup { <<c>> : c \in Singles } \cup Chained

(***************************************************************************)
(* State.  The scanner script and the web application are two programs;    *)
(* a behaviour follows one run of one of them, or the web server handling  *)
(* scan-folder and delete-structure requests on its worker threads.        *)
(***************************************************************************)
VARIABLES
  program,     \* "scanner": scan_customer_folder;  "webapp": scan, then bulk apply;
               \* "server": the request handlers of routes/job_structure.py
  conditions,  \* the ordered rule list (naming_conditions / conditions)
  root,        \* the folder to scan
  scanState,   \* scanner: "ready", "running", "done"
  stack,       \* scanner: the active scan_directory calls, innermost last;
               \* each holds the items its loop has not reached yet
  structure,   \* scanner: the result list, as built so far
  printed,     \* scanner: the exceptions scan_directory caught and printed
  webState,    \* webapp: "ready", "scanned", "applied", "failed"
  data,        \* webapp: structure_data
  bulkErr,     \* webapp: the exception apply_naming_conditions_to_structure raised
  aliasCalls,  \* the calls of apply_naming_conditions (scanner) and of
               \* apply_condition_to_item (bulk path) made so far
  table,       \* server: the rows of job_structure_settings
  nextId,      \* server: the id AUTOINCREMENT gives the next row
  handlers     \* server: what each worker thread is doing, and its last response

vars == << program, conditions, root, scanState, stack, structure, printed,
           webState, data, bulkErr, aliasCalls, table, nextId, handlers >>

MaxThreads == 2    \* worker threads handling requests at the same time
MaxRows == 3       \* rows inserted in one behaviour of the server

Threads == 1..MaxThreads

\* a thread between requests; status is the code of its last response
Idle(status) == [pc |-> "idle", customer_name |-> <<>>, folder_path |-> <<>>,
                 status |-> status]

NoResponse == 0

\* init_database has run and no request has been handled
EmptyStore ==
  /\ table = {}
  /\ nextId = 1
  /\ handlers = [t \in Threads |-> Idle(NoResponse)]

Init ==
  /\ EmptyStore
  /\ program \in { "scanner", "webapp" }
  /\ conditions \in CondLists
  /\ root \in Trees
  /\ scanState = "ready"
  /\ stack = <<>>
  /\ structure = <<>>
  /\ printed = <<>>
  /\ webState = "ready"
  /\ data = <<>>
  /\ bulkErr = "none"
  /\ aliasCalls = 0

WebUnchanged == UNCHANGED << webState, data, bulkErr >>
StoreUnchanged == UNCHANGED << table, nextId, handlers >>
ScanUnchanged == UNCHANGED << scanState, stack, structure, printed >>
InputsUnchanged == UNCHANGED << program, conditions, root >>

Frame(dir, relative_path) == [items |-> SortedItems(dir.kids), rel |-> relative_path]

Pop(st) == SubSeq(st, 1, Len(st) - 1)
Top(st) == st[Len(st)]

\* scan_customer_folder up to the first listing: structure = [] and the
\* call scan_directory(folder_path)
ScanStart ==
  /\ program = "scanner"
  /\ scanState = "ready"
  /\ scanState' = "running"
  /\ structure' = <<>>
  /\ IF root.denied
       THEN stack' = <<>> /\ printed' = Append(printed, "PermissionError")
       ELSE stack' = << Frame(root, <<>>) >> /\ UNCHANGED printed
  /\ UNCHANGED aliasCalls
  /\ WebUnchanged /\ InputsUnchanged /\ StoreUnchanged

\* the name the rules are applied to and the entry appended for an item
ScanName(item) == IF item.dir THEN item.name ELSE splitext(item.name).root

ScanEntry(item, path, alias) ==
  IF item.dir THEN FolderItem(item, path, alias) ELSE FileItem(item, path, alias)

\* one iteration of the loop of scan_directory
ScanItem ==
  /\ program = "scanner"
  /\ scanState = "running"
  /\ stack # <<>>
  /\ Top(stack).items # <<>>
  /\ LET frame == Top(stack)
         item == Head(frame.items)
         path == JoinPath(frame.rel, item.name)
         alias == apply_naming_conditions(ScanName(item), conditions)
         after == Append(Pop(stack), [frame EXCEPT !.items = Tail(frame.items)]) IN
     IF alias.err # "none" THEN
       \* except Exception: the call prints and returns
       /\ stack' = Pop(stack)
       /\ printed' = Append(printed, alias.err)
       /\ UNCHANGED structure
     ELSE
       /\ structure' = Append(structure, ScanEntry(item, path, alias.val))
       /\ IF item.dir /\ item.denied THEN
            /\ stack' = after
            /\ printed' = Append(printed, "PermissionError")
          ELSE IF item.dir THEN
            /\ stack' = Append(after, Frame(item, path))
            /\ UNCHANGED printed
          ELSE
            /\ stack' = after
            /\ UNCHANGED printed
  /\ aliasCalls' = aliasCalls + 1
  /\ UNCHANGED scanState
  /\ WebUnchanged /\ InputsUnchanged /\ StoreUnchanged

\* the loop of a scan_directory call ends and the call returns
ScanReturn ==
  /\ program = "scanner"
  /\ scanState = "running"
  /\ stack # <<>>
  /\ Top(stack).items = <<>>
  /\ stack' = Pop(stack)
  /\ UNCHANGED << scanState, structure, printed, aliasCalls >>
  /\ WebUnchanged /\ InputsUnchanged /\ StoreUnchanged

\* return structure
ScanDone ==
  /\ program = "scanner"
  /\ scanState = "running"
  /\ stack = <<>>
  /\ scanState' = "done"
  /\ UNCHANGED << stack, structure, printed, aliasCalls >>
  /\ WebUnchanged /\ InputsUnchanged /\ StoreUnchanged

\* scan_folder: structure = scan_directory_structure(folder_path), stored
WebScan ==
  /\ program = "webapp"
  /\ webState = "ready"
  /\ data' = scan_directory_structure(root)
  /\ webState' = "scanned"
  /\ UNCHANGED << bulkErr, aliasCalls >>
  /\ ScanUnchanged /\ InputsUnchanged /\ StoreUnchanged

\* apply_naming_conditions_to_structure(structure_data, conditions)
BulkApply ==
  /\ program = "webapp"
  /\ webState = "scanned"
  /\ LET r == apply_naming_conditions_to_structure(data, conditions) IN
     /\ data' = r.data
     /\ bulkErr' = r.err
     /\ webState' = IF r.err = "none" THEN "applied" ELSE "failed"
  /\ aliasCalls' = aliasCalls + StructureCalls(data, conditions, 1)
  /\ ScanUnchanged /\ InputsUnchanged /\ StoreUnchanged

Next ==
  \/ ScanStart
  \/ ScanItem
  \/ ScanReturn
  \/ ScanDone
  \/ WebScan
  \/ BulkApply

Spec == Init /\ [][Next]_vars

\* a run that is not interrupted goes on while it has a step to take
FairSpec == Spec /\ WF_vars(Next)

(***************************************************************************)
(* The web server: scan_folder and delete_structure of                     *)
(* routes/job_structure.py.  app.run serves each request on its own        *)
(* thread, every handler opens its own connection, and each statement it   *)
(* executes is one step: the SELECT of scan_folder runs outside any        *)
(* transaction, the INSERT and the DELETE are committed right after.       *)
(***************************************************************************)
QUOTES == { "\"", "'" }

\* folder_path.strip('"\'')
RECURSIVE LStripQuotes(_)
LStripQuotes(s) == IF s # <<>> /\ Head(s) \in QUOTES THEN LStripQuotes(Tail(s)) ELSE s

RECURSIVE RStripQuotes(_)
RStripQuotes(s) ==
  IF s # <<>> /\ s[Len(s)] \in QUOTES THEN RStripQuotes(SubSeq(s, 1, Len(s) - 1)) ELSE s

StripQuotes(s) == LStripQuotes(RStripQuotes(s))

\* os.path.normpath for a path of one component: '' becomes '.', trailing
\* separators are dropped
RECURSIVE DropTrailingSep(_)
DropTrailingSep(s) ==
  IF Len(s) > 1 /\ s[Len(s)] = "/" THEN DropTrailingSep(SubSeq(s, 1, Len(s) - 1)) ELSE s

normpath(path) == IF path = <<>> THEN <<".">> ELSE DropTrailingSep(path)

\* the file system the server sees: two folders and a file
P_A == <<"A">>
P_B == <<"B">>
P_file == <<"n", "o", "t", "e">>

Disk == (P_A :> TreeA) @@ (P_B :> TreeB) @@ (P_file :> File(P_file))

UNKNOWN == <<"U", "n", "k", "n", "o", "w", "n">>
C_acme == <<"A", "c", "m", "e">>

\* the JSON bodies of scan-folder requests
RequestPaths ==
  { P_A, <<"\"">> \o P_A \o <<"\"">>, P_A \o <<"/">>, P_B, P_file, <<"Z">>, <<>> }

Bodies ==
  { [folder_path |-> p] : p \in RequestPaths }
  \cup { [folder_path |-> p, customer_name |-> C_acme] : p \in RequestPaths }
  \cup { [customer_name |-> C_acme] }

\* SELECT id FROM job_structure_settings WHERE customer_name = ? AND folder_path = ?
Existing(rows, customer_name, folder_path) ==
  { r \in rows : r.customer_name = customer_name /\ r.folder_path = folder_path }

Respond(t, status) == handlers' = [handlers EXCEPT ![t] = Idle(status)]

\* the requests being handled that have passed the SELECT
InFlight == { t \in Threads : handlers[t].pc = "scanning" }

\* scan_folder up to the test of existing: the request is refused, or goes on
\* to scan the folder
ScanFolderCheck(t, body) ==
  /\ program = "server"
  /\ handlers[t].pc = "idle"
  /\ nextId + Cardinality(InFlight) <= MaxRows
  /\ LET raw == dict_get(body, "folder_path", <<>>)
         customer_name == dict_get(body, "customer_name", UNKNOWN)
         folder_path == normpath(StripQuotes(raw)) IN
     IF raw = <<>> THEN Respond(t, 400)
     ELSE IF folder_path \notin DOMAIN Disk THEN Respond(t, 400)
     ELSE IF ~Disk[folder_path].dir THEN Respond(t, 400)
     ELSE IF Existing(table, customer_name, folder_path) # {} THEN Respond(t, 400)
     ELSE handlers' = [handlers EXCEPT ![t] =
            [pc |-> "scanning", customer_name |-> customer_name,
             folder_path |-> folder_path, status |-> NoResponse]]
  /\ UNCHANGED << table, nextId, aliasCalls >>
  /\ ScanUnchanged /\ WebUnchanged /\ InputsUnchanged

\* scan_folder from the scan on: structure = scan_directory_structure(...),
\* INSERT, commit and the response
ScanFolderInsert(t) ==
  /\ program = "server"
  /\ handlers[t].pc = "scanning"
  /\ table' = table \cup
       { [id |-> nextId, customer_name |-> handlers[t].customer_name,
          folder_path |-> handlers[t].folder_path,
          structure_data |-> scan_directory_structure(Disk[handlers[t].folder_path])] }
  /\ nextId' = nextId + 1
  /\ Respond(t, 200)
  /\ UNCHANGED aliasCalls
  /\ ScanUnchanged /\ WebUnchanged /\ InputsUnchanged

\* delete_structure(structure_id): DELETE, commit and the response
DeleteStructure(t, structure_id) ==
  /\ program = "server"
  /\ handlers[t].pc = "idle"
  /\ table' = { r \in table : r.id # structure_id }
  /\ Respond(t, 200)
  /\ UNCHANGED << nextId, aliasCalls >>
  /\ ScanUnchanged /\ WebUnchanged /\ InputsUnchanged

StoreInit ==
  /\ EmptyStore
  /\ program = "server"
  /\ conditions = <<>>
  /\ root = TreeA
  /\ scanState = "ready"
  /\ stack = <<>>
  /\ structure = <<>>
  /\ printed = <<>>
  /\ webState = "ready"
  /\ data = <<>>
  /\ bulkErr = "none"
  /\ aliasCalls = 0

StoreNext ==
  \E t \in Threads :
    \/ \E body \in Bodies : ScanFolderCheck(t, body)
    \/ ScanFolderInsert(t)
    \/ \E structure_id \in 1..MaxRows : DeleteStructure(t, structure_id)

StoreSpec == StoreInit /\ [][StoreNext]_vars

(***************************************************************************)
(* Vocabulary of the properties                                            *)
(***************************************************************************)
\* the items a complete scan of a folder lists: everything below it that is
\* not inside a folder whose listing is denied
RECURSIVE Listed(_)
Listed(dir) ==
  IF dir.denied THEN {}
  ELSE dir.kids \cup UNION { Listed(k) : k \in { x \in dir.kids : x.dir } }

\* the names the scanner applies the rules to, and the names the bulk path
\* applies them to
ScanNames == { ScanName(n) : n \in Listed(root) }
ItemNames == { n.name : n \in Listed(root) }

\* the paths a complete scan of a folder emits entries for
RECURSIVE ListedPaths(_, _)
ListedPaths(dir, rel) ==
  IF dir.denied THEN {}
  ELSE UNION { { JoinPath(rel, k.name) }
               \cup (IF k.dir THEN ListedPaths(k, JoinPath(rel, k.name)) ELSE {}) :
               k \in dir.kids }

ScanComplete == { structure[i].path : i \in 1..Len(structure) } = ListedPaths(root, <<>>)

\* the name the scanner computed the alias of a result entry from
EntryName(e) == IF e.type = "folder" THEN e.name ELSE e.file_name

NotDisabled(c) == ~("enabled" \in DOMAIN c /\ c.enabled = FALSE)
TypeOf(c) == dict_get(c, "type", "contains")
ChainsOf(c) == dict_get(c, "chains", <<>>)

\* the verdict of a whole condition (primary and chain) on each path
Verdict(name, c) ==
  matches_condition_with_chains(name, c.pattern, TypeOf(c), ChainsOf(c))
db_Verdict(name, c) ==
  db_matches_condition_with_chains(name, c.pattern, TypeOf(c), ChainsOf(c))

\* the enabled conditions that evaluate true for a name
TrueOnes(name) ==
  { k \in 1..Len(conditions) :
      NotDisabled(conditions[k]) /\ Verdict(name, conditions[k]) = OkB(TRUE) }
db_TrueOnes(name) ==
  { k \in 1..Len(conditions) :
      NotDisabled(conditions[k]) /\ db_Verdict(name, conditions[k]) = OkB(TRUE) }

Least(S) == CHOOSE k \in S : \A j \in S : k <= j

\* the replacement step of one condition on each path
Replaced(name, c) == apply_replacement(name, c.pattern, c.replacement, TypeOf(c))
db_Replaced(name, c) == db_apply_replacement(name, c.pattern, c.replacement, TypeOf(c))

ScanFinished == program = "scanner" /\ scanState = "done"
BulkFinished == program = "webapp" /\ webState \in { "applied", "failed" }

(***************************************************************************)
(* C1  First-match-wins.  Whenever two or more enabled conditions evaluate *)
(* true for a name, the alias is the replacement result of the first of    *)
(* them in list order: for every entry the scanner emits, and for every    *)
(* item once the bulk path has been applied to the stored structure.       *)
(***************************************************************************)
C1_FirstMatchWins ==
  /\ \A i \in 1..Len(structure) :
       LET name == EntryName(structure[i]) IN
       Cardinality(TrueOnes(name)) >= 2 =>
         OkS(structure[i].alias) = Replaced(name, conditions[Least(TrueOnes(name))])
  /\ BulkFinished =>
       \A i \in 1..Len(data) :
         LET name == data[i].name IN
         Cardinality(db_TrueOnes(name)) >= 2 =>
           /\ bulkErr = "none"
           /\ OkS(data[i].alias) = db_Replaced(name, conditions[Least(db_TrueOnes(name))])

(***************************************************************************)
(* C2  No rule is ever fatal.  Whatever the condition list, no exception   *)
(* leaves alias computation: the scanner's scan_directory catches none     *)
(* (the only thing it may report is a folder it is not allowed to list),   *)
(* a finished scan holds an entry for every listed item, and the bulk      *)
(* path returns normally.                                                  *)
(***************************************************************************)
C2_NoRuleIsFatal ==
  /\ \A i \in 1..Len(printed) : printed[i] = "PermissionError"
  /\ ScanFinished => ScanComplete
  /\ bulkErr = "none"

(***************************************************************************)
(* C3  Malformed regex safety.  With a list made of enabled regex          *)
(* conditions whose pattern is not a valid regular expression, matching    *)
(* returns false and the alias of every name is the name, nothing raised:  *)
(* in the scanner and in the bulk path.                                    *)
(***************************************************************************)
MalformedRegex(c) ==
  /\ NotDisabled(c)
  /\ TypeOf(c) = "regex"
  /\ ChainsOf(c) = <<>>
  /\ re_compile(c.pattern).err = "re.error"

\* C3: under malformed regex conditions nothing is raised, nothing matches and
\* every alias is the name, on both paths
C3_MalformedRegexSafety ==
  (conditions # <<>> /\ \A k \in 1..Len(conditions) : MalformedRegex(conditions[k])) =>
    /\ \A i \in 1..Len(printed) : printed[i] = "PermissionError"
    /\ \A i \in 1..Len(structure) :
         /\ structure[i].alias = EntryName(structure[i])
         /\ \A k \in 1..Len(conditions) :
              matches_condition(EntryName(structure[i]), conditions[k].pattern, "regex")
                = OkB(FALSE)
    /\ ScanFinished => ScanComplete
    /\ BulkFinished =>
         /\ bulkErr = "none"
         /\ data = scan_directory_structure(root)
         /\ \A i \in 1..Len(data) : \A k \in 1..Len(conditions) :
              db_matches_condition(data[i].name, conditions[k].pattern, "regex") = OkB(FALSE)

(***************************************************************************)
(* C4  Disabled-skip.  Taking the conditions with enabled = false out of   *)
(* the list, and writing enabled = true into the records that have no      *)
(* enabled field, changes nothing: the scanner computes the same alias or  *)
(* raises the same exception for every name it scans, every entry it has   *)
(* emitted carries the alias the cleaned list gives, and the bulk path     *)
(* leaves the structure and the outcome the cleaned list gives.            *)
(***************************************************************************)
AsEnabled(c) == [k \in DOMAIN c \cup { "enabled" } |-> IF k = "enabled" THEN TRUE ELSE c[k]]

Cleaned(conds) ==
  LET kept == SelectSeq(conds, NotDisabled) IN
  [k \in 1..Len(kept) |-> AsEnabled(kept[k])]

\* C4: dropping the disabled conditions (no enabled field counting as enabled)
\* changes no alias and no outcome, on both paths
C4_DisabledSkip ==
  /\ program = "scanner" =>
       /\ \A name \in ScanNames :
            apply_naming_conditions(name, conditions)
              = apply_naming_conditions(name, Cleaned(conditions))
       /\ \A i \in 1..Len(structure) :
            OkS(structure[i].alias)
              = apply_naming_conditions(EntryName(structure[i]), Cleaned(conditions))
  /\ BulkFinished =>
       [err |-> bulkErr, data |-> data]
         = apply_naming_conditions_to_structure(scan_directory_structure(root),
                                                Cleaned(conditions))

\* a finished scan under a list that holds a disabled condition which, were
\* it enabled, would have decided an entry's alias, and a condition without
\* enabled field that did decide it
C4_Witness ==
  /\ ScanFinished
  /\ \E i \in 1..Len(structure), k1, k2 \in 1..Len(conditions) :
       LET name == EntryName(structure[i]) IN
       /\ k1 < k2
       /\ ~NotDisabled(conditions[k1])
       /\ Verdict(name, conditions[k1]) = OkB(TRUE)
       /\ Replaced(name, conditions[k1]) # OkS(structure[i].alias)
       /\ "enabled" \notin DOMAIN conditions[k2]
       /\ Verdict(name, conditions[k2]) = OkB(TRUE)
       /\ OkS(structure[i].alias) = Replaced(name, conditions[k2])
       /\ structure[i].alias # name

(***************************************************************************)
(* C5  No-match identity.  For every name the scanner reaches, if no       *)
(* enabled condition of the list evaluates true, computing the alias       *)
(* returns the name: the entry is emitted and its alias is the name.       *)
(***************************************************************************)
C5_NoMatchIdentity ==
  program = "scanner" =>
    /\ \A i \in 1..Len(structure) :
         TrueOnes(EntryName(structure[i])) = {} =>
           structure[i].alias = EntryName(structure[i])
    /\ ScanFinished =>
         \A n \in Listed(root) :
           TrueOnes(ScanName(n)) = {} =>
             \E i \in 1..Len(structure) :
               /\ EntryName(structure[i]) = ScanName(n)
               /\ structure[i].alias = ScanName(n)

(***************************************************************************)
(* C6  Chain evaluation is a strict left fold.  On both paths the verdict  *)
(* of a condition whose links carry AND, OR or no operator equals          *)
(* ((primary op1 link1) op2 link2) ..., every link matched on its own      *)
(* against the same name in list order, no operator meaning AND, an empty  *)
(* chain giving the primary match; an exception raised by the primary or   *)
(* by a link is the outcome.  In particular a condition whose primary      *)
(* matches and whose single AND link does not is a no-match: alone in the  *)
(* list it leaves the alias equal to the name.                             *)
(***************************************************************************)
OperatorOf(link) == IF "operator" \in DOMAIN link THEN link.operator ELSE "AND"

FoldableChain(c) == \A k \in 1..Len(ChainsOf(c)) : OperatorOf(ChainsOf(c)[k]) \in { "AND", "OR" }

\* acc op m for two outcomes, the first exception winning
Combine(acc, op, m) ==
  IF acc.err # "none" THEN acc
  ELSE IF m.err # "none" THEN m
  ELSE OkB(IF op = "AND" THEN acc.val /\ m.val ELSE acc.val \/ m.val)

\* ((primary op1 ms[1]) op2 ms[2]) ... up to link k
RECURSIVE LeftFold(_, _, _, _)
LeftFold(primary, chains, ms, k) ==
  IF k = 0 THEN primary
  ELSE Combine(LeftFold(primary, chains, ms, k - 1), OperatorOf(chains[k]), ms[k])

Folded(name, c) ==
  LeftFold(matches_condition(name, c.pattern, TypeOf(c)), ChainsOf(c),
           [k \in 1..Len(ChainsOf(c)) |->
              matches_condition(name, ChainsOf(c)[k].pattern, ChainsOf(c)[k].type)],
           Len(ChainsOf(c)))

db_Folded(name, c) ==
  LeftFold(db_matches_condition(name, c.pattern, TypeOf(c)), ChainsOf(c),
           [k \in 1..Len(ChainsOf(c)) |->
              db_matches_condition(name, ChainsOf(c)[k].pattern, ChainsOf(c)[k].type)],
           Len(ChainsOf(c)))

\* the primary matches and the only link is an AND link that does not
FailedAnd(primary, c, link_match) ==
  /\ NotDisabled(c)
  /\ Len(ChainsOf(c)) = 1
  /\ OperatorOf(ChainsOf(c)[1]) = "AND"
  /\ primary = OkB(TRUE)
  /\ link_match = OkB(FALSE)

\* C6: the verdict of a condition is the left fold of its chain, on both
\* paths; a matching primary with one failing AND link leaves the alias alone
C6_ChainLeftFold ==
  /\ \A k \in 1..Len(conditions) :
       FoldableChain(conditions[k]) =>
         /\ \A name \in ScanNames : Verdict(name, conditions[k]) = Folded(name, conditions[k])
         /\ \A name \in ItemNames :
              db_Verdict(name, conditions[k]) = db_Folded(name, conditions[k])
  /\ Len(conditions) = 1 =>
       LET c == conditions[1] IN
       /\ \A i \in 1..Len(structure) :
            LET name == EntryName(structure[i]) IN
            FailedAnd(matches_condition(name, c.pattern, TypeOf(c)), c,
                      matches_condition(name, ChainsOf(c)[1].pattern, ChainsOf(c)[1].type))
              => structure[i].alias = name
       /\ BulkFinished =>
            \A i \in 1..Len(data) :
              LET name == data[i].name IN
              FailedAnd(db_matches_condition(name, c.pattern, TypeOf(c)), c,
                        db_matches_condition(name, ChainsOf(c)[1].pattern, ChainsOf(c)[1].type))
                => /\ bulkErr = "none"
                   /\ apply_condition_to_item(data[i], c) = OkS(name)
                   /\ data[i].alias = scan_directory_structure(root)[i].alias

\* the bulk path has been applied under a condition that would rename an
\* item, whose primary matches it, whose first link is an OR link and whose
\* second link has no operator and does not match: the fold gives no-match
\* and the item keeps the alias the scan gave it
C6_Witness ==
  /\ BulkFinished
  /\ bulkErr = "none"
  /\ Len(conditions) = 1
  /\ Len(ChainsOf(conditions[1])) = 2
  /\ "operator" \notin DOMAIN ChainsOf(conditions[1])[2]
  /\ OperatorOf(ChainsOf(conditions[1])[1]) = "OR"
  /\ \E i \in 1..Len(data) :
       LET name == data[i].name
           c == conditions[1] IN
       /\ db_matches_condition(name, c.pattern, TypeOf(c)) = OkB(TRUE)
       /\ db_matches_condition(name, ChainsOf(c)[2].pattern, ChainsOf(c)[2].type) = OkB(FALSE)
       /\ db_Verdict(name, c) = OkB(FALSE)
       /\ db_Replaced(name, c) # OkS(name)
       /\ data[i].alias = scan_directory_structure(root)[i].alias

(***************************************************************************)
(* C7  Chain OR.  In the scanner, when the primary of the first condition  *)
(* reached does not match the name and the last link of its chain is an OR *)
(* link that matches, the condition matches, the entry's alias is the      *)
(* replacement step of that condition (the primary's kind, pattern and     *)
(* replacement), and the conditions after it play no part.                 *)
(***************************************************************************)
\* condition k is enabled and every enabled condition before it is a no-match
Reached(name, k) ==
  /\ NotDisabled(conditions[k])
  /\ \A j \in 1..(k - 1) :
       NotDisabled(conditions[j]) => Verdict(name, conditions[j]) = OkB(FALSE)

\* the primary does not match, the last link is an OR link that does
RescuedByOr(name, c) ==
  /\ ChainsOf(c) # <<>>
  /\ matches_condition(name, c.pattern, TypeOf(c)) = OkB(FALSE)
  /\ OperatorOf(ChainsOf(c)[Len(ChainsOf(c))]) = "OR"
  /\ matches_condition(name, ChainsOf(c)[Len(ChainsOf(c))].pattern,
                       ChainsOf(c)[Len(ChainsOf(c))].type) = OkB(TRUE)
  /\ \A k \in 1..Len(ChainsOf(c)) :
       matches_condition(name, ChainsOf(c)[k].pattern, ChainsOf(c)[k].type).err = "none"

NOT_KINDS == { "not_contains", "not_startswith", "not_endswith", "not_equals" }

PositiveTest(kind, name, pattern) ==
  IF kind = "not_contains" THEN str_in(pattern, name)
  ELSE IF kind = "not_startswith" THEN str_startswith(name, pattern)
  ELSE IF kind = "not_endswith" THEN str_endswith(name, pattern)
  ELSE name = pattern

NotKindAlone(conds) ==
  /\ Len(conds) = 1
  /\ NotDisabled(conds[1])
  /\ TypeOf(conds[1]) \in NOT_KINDS
  /\ ChainsOf(conds[1]) = <<>>

\* C8: a not_* condition matches exactly when the positive test fails and
\* then the alias is the replacement, on both paths
C8_NotKinds ==
  NotKindAlone(conditions) =>
    LET c == conditions[1] IN
    /\ \A i \in 1..Len(structure) :
         LET name == EntryName(structure[i]) IN
         /\ matches_condition(name, c.pattern, TypeOf(c))
              = OkB(~PositiveTest(TypeOf(c), name, c.pattern))
         /\ structure[i].alias
              = IF PositiveTest(TypeOf(c), name, c.pattern) THEN name ELSE c.replacement
    /\ BulkFinished =>
         /\ bulkErr = "none"
         /\ \A i \in 1..Len(data) :
              LET name == data[i].name IN
              /\ db_matches_condition(name, c.pattern, TypeOf(c))
                   = OkB(~PositiveTest(TypeOf(c), name, c.pattern))
              /\ data[i].alias
                   = IF PositiveTest(TypeOf(c), name, c.pattern)
                       THEN scan_directory_structure(root)[i].alias
                       ELSE c.replacement

(***************************************************************************)
(* C9  Intuitive capture alignment.  For every intuitive pattern of the    *)
(* rule list, the capture list that apply_intuitive_replacement builds     *)
(* lists the placeholders in their left-to-right order in the pattern, so  *)
(* that its i-th entry describes the i-th group of the compiled regex.     *)
(***************************************************************************)
\* the placeholder that starts at position i of the pattern, if one does:
\* [len, cap], len = 0 for none
PlaceholderAt(pattern, i) ==
  LET n == ReadNum(pattern, i + 2, 0, FALSE) IN
  IF MatchAt(pattern, <<"{", "d">>, i) /\ n.any /\ At(pattern, n.i) = "}"
    THEN [len |-> n.i + 1 - i, cap |-> [type |-> TYPE_DIGITS, count |-> n.n]]
  ELSE IF MatchAt(pattern, <<"{">> \o TYPE_CUSTOMER \o <<"}">>, i)
    THEN [len |-> Len(TYPE_CUSTOMER) + 2, cap |-> [type |-> TYPE_CUSTOMER]]
  ELSE IF MatchAt(pattern, <<"{">> \o TYPE_DATE \o <<"}">>, i)
    THEN [len |-> Len(TYPE_DATE) + 2, cap |-> [type |-> TYPE_DATE]]
  ELSE IF MatchAt(pattern, <<"{">> \o TYPE_WORD \o <<"}">>, i)
    THEN [len |-> Len(TYPE_WORD) + 2, cap |-> [type |-> TYPE_WORD]]
  ELSE IF MatchAt(pattern, <<"{">> \o TYPE_TEXT \o <<"}">>, i)
    THEN [len |-> Len(TYPE_TEXT) + 2, cap |-> [type |-> TYPE_TEXT]]
  ELSE [len |-> 0, cap |-> [type |-> <<>>]]

\* the placeholders of a pattern from position i on, left to right
RECURSIVE PlaceholdersFrom(_, _)
PlaceholdersFrom(pattern, i) ==
  IF i > Len(pattern) THEN <<>>
  ELSE IF PlaceholderAt(pattern, i).len = 0 THEN PlaceholdersFrom(pattern, i + 1)
  ELSE <<PlaceholderAt(pattern, i).cap>>
       \o PlaceholdersFrom(pattern, i + PlaceholderAt(pattern, i).len)

\* C9: the capture list of every intuitive pattern is the list of its
\* placeholders from left to right
C9_CaptureAlignment ==
  \A k \in 1..Len(conditions) :
    TypeOf(conditions[k]) = "intuitive" =>
      IntuitiveCaptures(conditions[k].pattern).captures
        = PlaceholdersFrom(conditions[k].pattern, 1)

(***************************************************************************)
(* C10  Intuitive round-trip.  Under the single enabled intuitive          *)
(* condition with pattern {d5}-R{word} and replacement {5}_rev{word},      *)
(* matching completes without error and the item named 35394-R1 gets the   *)
(* alias 35394_rev1: in a finished scan of the scanner and in the          *)
(* structure the bulk path leaves.                                         *)
(***************************************************************************)
ALIAS_35394_rev1 == <<"3", "5", "3", "9", "4", "_", "r", "e", "v", "1">>

\* C10: {d5}-R{word} with {5}_rev{word} turns 35394-R1 into 35394_rev1 without
\* error, on both paths
C10_IntuitiveRoundTrip ==
  conditions = << Cond("intuitive", P_d5Rword, R_rev) >> =>
    /\ program = "scanner" =>
         /\ \A i \in 1..Len(printed) : printed[i] = "PermissionError"
         /\ ScanFinished =>
              \A n \in Listed(root) :
                n.name = N_job =>
                  \E i \in 1..Len(structure) :
                    structure[i].name = N_job /\ structure[i].alias = ALIAS_35394_rev1
    /\ BulkFinished =>
         /\ bulkErr = "none"
         /\ \A i \in 1..Len(data) :
              data[i].name = N_job => data[i].alias = ALIAS_35394_rev1

(***************************************************************************)
(* C11  extract_job_number matching.  Under a single enabled condition of  *)
(* kind extract_job_number, whatever its pattern, the test of a name is    *)
(* true exactly when the name holds a run of exactly five digits: for the  *)
(* names a finished scan of the scanner covers and for the items the bulk  *)
(* path has been applied to.                                               *)
(***************************************************************************)
\* a maximal run of exactly n digits starts at position i of the name
DigitRunAt(name, i, n) ==
  /\ i + n - 1 <= Len(name)
  /\ \A j \in i..(i + n - 1) : name[j] \in DigitChars
  /\ (i = 1 \/ name[i - 1] \notin DigitChars)
  /\ (i + n - 1 = Len(name) \/ name[i + n] \notin DigitChars)

HasRunOfExactly5(name) == \E i \in 1..Len(name) : DigitRunAt(name, i, 5)

JobNumberAlone(conds) ==
  /\ Len(conds) = 1
  /\ NotDisabled(conds[1])
  /\ TypeOf(conds[1]) = "extract_job_number"
  /\ ChainsOf(conds[1]) = <<>>

\* C11: the extract_job_number test is true iff the name holds a run of
\* exactly five digits, on both paths
C11_ExtractJobNumberMatch ==
  JobNumberAlone(conditions) =>
    /\ ScanFinished =>
         \A name \in ScanNames :
           matches_condition(name, conditions[1].pattern, "extract_job_number")
             = OkB(HasRunOfExactly5(name))
    /\ BulkFinished =>
         \A i \in 1..Len(data) :
           db_matches_condition(data[i].name, conditions[1].pattern, "extract_job_number")
             = OkB(HasRunOfExactly5(data[i].name))

(***************************************************************************)
(* C12  extract_* replacement.  Under a single enabled condition of kind   *)
(* extract_job_number, extract_customer or extract_date, a name in which   *)
(* the matcher's regex finds something gets as alias the replacement with  *)
(* every "$1" replaced by the leftmost text the regex finds, e.g. the name *)
(* Acme 35394 Drawing with Job-$1 gets Job-35394; a name for which the     *)
(* condition fired through its chain while the regex finds nothing keeps   *)
(* the name: in the scanner and in the bulk path.                          *)
(***************************************************************************)
EXTRACT_KINDS == { "extract_job_number", "extract_customer", "extract_date" }

\* the regex the matcher uses for an extract kind
MatcherRegex(kind) ==
  IF kind = "extract_job_number" THEN JOB_NUMBER_RE
  ELSE IF kind = "extract_customer" THEN CUSTOMER_RE
  ELSE DATE_RE

\* the leftmost match of the matcher's regex in the name
Extraction(name, kind) == re_search(re_compile(MatcherRegex(kind)), name)

\* the alias of a name for which the condition fires
ExtractAlias(name, c) ==
  IF Extraction(name, TypeOf(c)).ok
    THEN str_replace(c.replacement, DOLLAR_ONE,
                     MatchGroup(name, Extraction(name, TypeOf(c)), 0))
    ELSE name

ExtractAlone(conds) ==
  /\ Len(conds) = 1
  /\ NotDisabled(conds[1])
  /\ TypeOf(conds[1]) \in EXTRACT_KINDS

\* the condition fires for the name: its regex finds something, or its
\* chain gives a match
ExtractFires(name, c, verdict) == Extraction(name, TypeOf(c)).ok \/ verdict = OkB(TRUE)

\* C12: a fired extract_* condition gives the replacement with $1 replaced by
\* the leftmost extracted text, or the name when nothing is extracted
C12_ExtractReplacement ==
  ExtractAlone(conditions) =>
    LET c == conditions[1] IN
    /\ ScanFinished =>
         \A n \in Listed(root) :
           (ChainsOf(c) = <<>> /\ ExtractFires(ScanName(n), c, Verdict(ScanName(n), c))) =>
             \E i \in 1..Len(structure) :
               /\ EntryName(structure[i]) = ScanName(n)
               /\ structure[i].alias = ExtractAlias(ScanName(n), c)
    /\ \A i \in 1..Len(structure) :
         ExtractFires(EntryName(structure[i]), c, Verdict(EntryName(structure[i]), c)) =>
           structure[i].alias = ExtractAlias(EntryName(structure[i]), c)
    /\ BulkFinished =>
         \A i \in 1..Len(data) :
           (\/ ChainsOf(c) = <<>> /\ Extraction(data[i].name, TypeOf(c)).ok
            \/ db_Verdict(data[i].name, c) = OkB(TRUE)) =>
             /\ bulkErr = "none"
             /\ apply_condition_to_item(data[i], c) = OkS(ExtractAlias(data[i].name, c))
             /\ data[i].alias
                  = IF ExtractAlias(data[i].name, c) # data[i].name
                      THEN ExtractAlias(data[i].name, c)
                      ELSE scan_directory_structure(root)[i].alias

(***************************************************************************)
(* C13  Purity.  No step changes the condition list.  Every entry the      *)
(* scanner appends carries the alias that the name and the condition list  *)
(* determine, so entries of equal name carry equal aliases, whatever was   *)
(* scanned before.  The bulk path leaves the number and the order of the   *)
(* items and every field of every item but alias as they were.             *)
(***************************************************************************)
\* the bulk path has run in this step
BulkStep == webState = "scanned" /\ webState' # "scanned"

\* the item with its alias put back to a given value
WithAlias(item, alias) == [item EXCEPT !.alias = alias]

\* C13: alias computation modifies no condition, depends on the name and the
\* condition list alone, and on the bulk path changes only alias fields
C13_Purity ==
  [][ /\ conditions' = conditions
      /\ Len(structure') > Len(structure) =>
           /\ SubSeq(structure', 1, Len(structure)) = structure
           /\ \A i \in 1..Len(structure') :
                OkS(structure'[i].alias)
                  = apply_naming_conditions(EntryName(structure'[i]), conditions')
           /\ \A i, j \in 1..Len(structure') :
                EntryName(structure'[i]) = EntryName(structure'[j]) =>
                  structure'[i].alias = structure'[j].alias
      /\ BulkStep =>
           /\ Len(data') = Len(data)
           /\ \A i \in 1..Len(data) : WithAlias(data'[i], data[i].alias) = data[i]
    ]_vars

\* the bulk path has rewritten the alias of an item and left its name
C13_Witness ==
  /\ BulkFinished
  /\ bulkErr = "none"
  /\ \E i \in 1..Len(data) :
       /\ data[i].alias # scan_directory_structure(root)[i].alias
       /\ data[i].name = scan_directory_structure(root)[i].name

(***************************************************************************)
(* C14  Unknown-kind fallback.  Under a single enabled condition, without  *)
(* chain, of a kind that is none of the recognised ones, matching is the   *)
(* contains test and the alias of a matching name is the name with every   *)
(* occurrence of the pattern replaced, nothing being raised; and on each   *)
(* path the matcher has a case of its own for a kind exactly when the      *)
(* replacer has one.                                                       *)
(***************************************************************************)
RECOGNISED_KINDS ==
  { "contains", "startswith", "endswith", "equals", "regex", "intuitive",
    "extract_job_number", "extract_customer", "extract_date",
    "not_contains", "not_startswith", "not_endswith", "not_equals" }

TestNames == { N_foo, N_bar, N_job, N_ab12, N_acme, N_six, N_date, N_box }

\* with a pattern that is a regex and occurs in no name as a text
TestPatterns == Patterns \cup { <<"b", ".">> }

\* the kinds for which a matcher, or a replacer, does something else than
\* the fallback on some input: the kinds it has a case of its own for
MatcherKinds ==
  { k \in Kinds : \E n \in TestNames, p \in TestPatterns :
      matches_condition(n, p, k) # OkB(str_in(p, n)) }
ReplacerKinds ==
  { k \in Kinds : \E n \in TestNames, p \in TestPatterns, r \in Replacements :
      apply_replacement(n, p, r, k) # OkS(str_replace(n, p, r)) }
db_MatcherKinds ==
  { k \in Kinds : \E n \in TestNames, p \in TestPatterns :
      db_matches_condition(n, p, k) # OkB(str_in(p, n)) }
db_ReplacerKinds ==
  { k \in Kinds : \E n \in TestNames, p \in TestPatterns, r \in Replacements :
      db_apply_replacement(n, p, r, k) # OkS(str_replace(n, p, r)) }

OneChainless(conds) ==
  /\ Len(conds) = 1
  /\ NotDisabled(conds[1])
  /\ ChainsOf(conds[1]) = <<>>

\* the alias that contains semantics give a name
ContainsAlias(name, c) ==
  IF str_in(c.pattern, name) THEN str_replace(name, c.pattern, c.replacement) ELSE name

\* C14: a kind that is not recognised matches and replaces as contains does,
\* raising nothing, and matcher and replacer know the same kinds
C14_UnknownKindFallback ==
  OneChainless(conditions) =>
    LET c == conditions[1] IN
    /\ (TypeOf(c) \in MatcherKinds) <=> (TypeOf(c) \in ReplacerKinds)
    /\ (TypeOf(c) \in db_MatcherKinds) <=> (TypeOf(c) \in db_ReplacerKinds)
    /\ TypeOf(c) \notin RECOGNISED_KINDS =>
         /\ \A i \in 1..Len(printed) : printed[i] = "PermissionError"
         /\ ScanFinished => ScanComplete
         /\ \A i \in 1..Len(structure) :
              LET name == EntryName(structure[i]) IN
              /\ matches_condition(name, c.pattern, TypeOf(c)) = OkB(str_in(c.pattern, name))
              /\ structure[i].alias = ContainsAlias(name, c)
         /\ BulkFinished =>
              /\ bulkErr = "none"
              /\ \A i \in 1..Len(data) :
                   LET name == data[i].name IN
                   /\ db_matches_condition(name, c.pattern, TypeOf(c))
                        = OkB(str_in(c.pattern, name))
                   /\ apply_condition_to_item(data[i], c) = OkS(ContainsAlias(name, c))
                   /\ data[i].alias
                        = IF ContainsAlias(name, c) # name
                            THEN ContainsAlias(name, c)
                            ELSE scan_directory_structure(root)[i].alias

\* a finished scan under a condition of an unknown kind that renamed an entry
C14_Witness ==
  /\ ScanFinished
  /\ OneChainless(conditions)
  /\ TypeOf(conditions[1]) \notin RECOGNISED_KINDS
  /\ \E i \in 1..Len(structure) :
       /\ structure[i].alias # EntryName(structure[i])
       /\ structure[i].alias = ContainsAlias(EntryName(structure[i]), conditions[1])

(***************************************************************************)
(* C15  startswith / endswith replacement guard.  Under a single enabled   *)
(* condition of kind startswith (endswith), a name for which the condition *)
(* fires gets the name with the pattern replaced if the name starts (ends) *)
(* with the pattern, and keeps the name if it does not, as when the        *)
(* condition fired through an OR link, even if the pattern occurs          *)
(* elsewhere in the name: in the scanner and in the bulk path.             *)
(***************************************************************************)
GUARDED_KINDS == { "startswith", "endswith" }

GuardedAlone(conds) ==
  /\ Len(conds) = 1
  /\ NotDisabled(conds[1])
  /\ TypeOf(conds[1]) \in GUARDED_KINDS

\* the literal prefix (suffix) test of the condition
GuardHolds(name, c) ==
  IF TypeOf(c) = "startswith" THEN str_startswith(name, c.pattern)
  ELSE str_endswith(name, c.pattern)

GuardedAlias(name, c) ==
  IF GuardHolds(name, c) THEN str_replace(name, c.pattern, c.replacement) ELSE name

\* C15: a fired startswith / endswith condition substitutes only when the
\* prefix / suffix test holds, else the alias is the name
C15_ReplacementGuard ==
  GuardedAlone(conditions) =>
    LET c == conditions[1] IN
    /\ \A i \in 1..Len(structure) :
         LET name == EntryName(structure[i]) IN
         Verdict(name, c) = OkB(TRUE) =>
           /\ Replaced(name, c) = OkS(GuardedAlias(name, c))
           /\ structure[i].alias = GuardedAlias(name, c)
    /\ BulkFinished =>
         \A i \in 1..Len(data) :
           LET name == data[i].name IN
           db_Verdict(name, c) = OkB(TRUE) =>
             /\ apply_condition_to_item(data[i], c) = OkS(GuardedAlias(name, c))
             /\ data[i].alias
                  = IF GuardedAlias(name, c) # name
                      THEN GuardedAlias(name, c)
                      ELSE scan_directory_structure(root)[i].alias

\* a finished scan in which a startswith or endswith condition fired through
\* its chain for a name that holds the pattern elsewhere, and the entry kept
\* the name
C15_Witness ==
  /\ ScanFinished
  /\ GuardedAlone(conditions)
  /\ \E i \in 1..Len(structure) :
       LET name == EntryName(structure[i]) IN
       /\ Verdict(name, conditions[1]) = OkB(TRUE)
       /\ ~GuardHolds(name, conditions[1])
       /\ str_in(conditions[1].pattern, name)
       /\ str_replace(name, conditions[1].pattern, conditions[1].replacement) # name
       /\ structure[i].alias = name

(***************************************************************************)
(* C16  Input name of alias computation.  The string the conditions are    *)
(* tested against is the stem of a file and the full name of a folder, and *)
(* an entry no condition matches has that string as alias: for the entries *)
(* the scanner emits, for the default alias the web scan assigns, and for  *)
(* the items the bulk path is applied to.                                  *)
(***************************************************************************)
\* the stem of a file entry, the name of a folder entry
InputName(e) == IF e.type = "file" THEN splitext(e.name).root ELSE e.name

\* the item as the bulk path would see it if it tested the input name
WithInputName(item) == [item EXCEPT !.name = InputName(item)]

\* C16: conditions are tested against the stem / folder name, which is also
\* the alias when nothing matches, on every path
C16_InputName ==
  /\ \A i \in 1..Len(structure) :
       /\ OkS(structure[i].alias)
            = apply_naming_conditions(InputName(structure[i]), conditions)
       /\ TrueOnes(InputName(structure[i])) = {} =>
            structure[i].alias = InputName(structure[i])
  /\ webState = "scanned" =>
       \A i \in 1..Len(data) : data[i].alias = InputName(data[i])
  /\ BulkFinished =>
       \A i \in 1..Len(data) : \A k \in 1..Len(conditions) :
         NotDisabled(conditions[k]) =>
           apply_condition_to_item(data[i], conditions[k])
             = apply_condition_to_item(WithInputName(data[i]), conditions[k])

(***************************************************************************)
(* C17  Directory walk.  A scan emits the entries of the tree in           *)
(* depth-first pre-order: one entry for every item that is not below a     *)
(* folder whose listing is denied (such a folder has its own entry), each  *)
(* folder entry immediately followed by the entries of its subtree,        *)
(* siblings in ascending order; the alias computation is invoked exactly   *)
(* once per emitted entry; and every scan comes to its end.  Stated for    *)
(* the scanner, for the runs in which scan_directory caught no exception   *)
(* of the alias computation, and for the scan of the web application.      *)
(***************************************************************************)
\* path p lies below the folder of path q
IsBelow(p, q) == Len(p) > Len(q) + 1 /\ SubSeq(p, 1, Len(q) + 1) = q \o <<"/">>

\* the path of the folder an entry of path p lies in, <<>> for the root
ParentPath(p) ==
  LET slashes == { i \in 1..Len(p) : p[i] = "/" } IN
  IF slashes = {} THEN <<>>
  ELSE SubSeq(p, 1, (CHOOSE i \in slashes : \A j \in slashes : j <= i) - 1)

\* the entries list the tree in depth-first pre-order, siblings ascending
WalkOrder(entries) ==
  /\ { entries[i].path : i \in 1..Len(entries) } = ListedPaths(root, <<>>)
  /\ \A i, j \in 1..Len(entries) : entries[i].path = entries[j].path => i = j
  /\ \A i, j \in 1..Len(entries) :
       (i < j /\ IsBelow(entries[j].path, entries[i].path)) =>
         \A k \in (i + 1)..j : IsBelow(entries[k].path, entries[i].path)
  /\ \A i, j \in 1..Len(entries) : IsBelow(entries[j].path, entries[i].path) => i < j
  /\ \A i, j \in 1..Len(entries) :
       (i < j /\ ParentPath(entries[i].path) = ParentPath(entries[j].path)) =>
         StrLess(entries[i].name, entries[j].name)

NoAliasError == \A i \in 1..Len(printed) : printed[i] = "PermissionError"

ScanEnded == ScanFinished \/ (program = "webapp" /\ webState # "ready")

C17_Walk ==
  /\ (ScanFinished /\ NoAliasError) =>
       /\ WalkOrder(structure)
       /\ aliasCalls = Len(structure)
  /\ (program = "webapp" /\ webState = "scanned") =>
       /\ WalkOrder(data)
       /\ aliasCalls = Len(data)

\* C17: the walk is a depth-first pre-order with sorted siblings that skips
\* only what lies below a denied folder, the alias computation is invoked
\* once per entry, and the scan ends
C17_DirectoryWalk == []C17_Walk /\ <>ScanEnded

(***************************************************************************)
(* C18  Intuitive replacement failure.  For an intuitive condition whose   *)
(* recompiled pattern is invalid or does not match the name,               *)
(* apply_intuitive_replacement returns the name and raises nothing; when   *)
(* the pattern matches, the result is the replacement template with each   *)
(* placeholder token replaced by the text its group captured.  Stated for  *)
(* the scanner's copy and for the copy of the bulk path.                   *)
(***************************************************************************)
\* the token a capture is written as in a replacement: {5}, {word}, ...
Token(capture) ==
  <<"{">>
  \o (IF capture.type = TYPE_DIGITS THEN IntToStr(capture.count) ELSE capture.type)
  \o <<"}">>

\* the template with the token of capture i, i+1, ... replaced by the text
\* of group i, i+1, ...
RECURSIVE FillTemplate(_, _, _, _, _)
FillTemplate(captures, i, name, m, template) ==
  IF i > Len(captures) THEN template
  ELSE FillTemplate(captures, i + 1, name, m,
                    str_replace(template, Token(captures[i]), MatchGroup(name, m, i)))

\* what the claim gives for name and the intuitive condition c; x is the
\* search of the recompiled pattern in name
IntuitiveExpected(x, captures, name, c) ==
  IF x.err # "none" \/ ~x.m.ok THEN OkS(name)
  ELSE OkS(FillTemplate(captures, 1, name, x.m, c.replacement))

IntuitiveAlias(recompiled, name, c) ==
  IntuitiveExpected(CompileSearch(recompiled.regex_pattern, name),
                    recompiled.captures, name, c)

IntuitiveConds == { k \in 1..Len(conditions) : TypeOf(conditions[k]) = "intuitive" }

\* C18: a failed substitution returns the name and raises nothing, a
\* successful one returns the filled replacement template, on both copies
C18_IntuitiveReplacement ==
  \A k \in IntuitiveConds : \A name \in ScanNames \cup ItemNames :
    LET c == conditions[k]
        expected == IntuitiveAlias(IntuitiveCaptures(c.pattern), name, c) IN
    /\ apply_intuitive_replacement(name, c.pattern, c.replacement) = expected
    /\ db_apply_intuitive_replacement(name, c.pattern, c.replacement) = expected

(***************************************************************************)
(* C19  Bulk-apply overwrite rule.  A call of                              *)
(* apply_naming_conditions_to_structure that returns tests every enabled   *)
(* condition against the item's name as it was before the call; the alias  *)
(* of the item afterwards is the output of the last enabled condition, in  *)
(* list order, whose output differs from that name, and is the alias the   *)
(* item had before the call when there is no such condition.               *)
(***************************************************************************)
\* the enabled conditions whose output for the item differs from its name
Differing(item) ==
  { k \in 1..Len(conditions) :
      /\ dict_get(conditions[k], "enabled", TRUE)
      /\ apply_condition_to_item(item, conditions[k]) # OkS(item.name) }

Greatest(S) == CHOOSE k \in S : \A j \in S : j <= k

\* the alias the rule gives the item, outs being Differing(item)
OverwriteAlias(item, outs) ==
  IF outs = {} THEN item.alias
  ELSE apply_condition_to_item(item, conditions[Greatest(outs)]).val

\* C19: after a bulk apply that returns, each alias is the output of the last
\* enabled condition that changes the original name, else the previous alias
C19_BulkOverwrite ==
  [][ (BulkStep /\ bulkErr' = "none") =>
        \A i \in 1..Len(data) :
          data'[i].alias = OverwriteAlias(data[i], Differing(data[i])) ]_vars

\* two enabled conditions change the name of an item differently and the
\* item carries the output of the later one
C19_Witness ==
  /\ BulkFinished /\ bulkErr = "none"
  /\ \E i \in 1..Len(data) : \E k1, k2 \in Differing(data[i]) :
       /\ k1 < k2
       /\ apply_condition_to_item(data[i], conditions[k1])
            # apply_condition_to_item(data[i], conditions[k2])
       /\ data[i].alias = apply_condition_to_item(data[i], conditions[k2]).val

(***************************************************************************)
(* C20  Unrecognised chain operator.  A link whose operator is neither     *)
(* 'AND' nor 'OR' does not change the verdict: the condition has the       *)
(* verdict it has with that link taken out of the chain, provided the      *)
(* link's own test raises nothing; when the link's own test raises, the    *)
(* evaluation of the condition raises.  Stated for both paths.             *)
(***************************************************************************)
\* the links of c with an operator value that is not recognised
UnknownLinks(c) ==
  { k \in 1..Len(ChainsOf(c)) : OperatorOf(ChainsOf(c)[k]) \notin { "AND", "OR" } }

\* c with link k taken out of its chain
WithoutLink(c, k) ==
  [c EXCEPT !.chains = SubSeq(ChainsOf(c), 1, k - 1)
                       \o SubSeq(ChainsOf(c), k + 1, Len(ChainsOf(c)))]

\* verdict is the verdict of a condition, without that of the condition
\* less one unrecognised link, link_match the link's own test
LinkIgnored(verdict, without, link_match) ==
  IF link_match.err = "none" THEN verdict = without ELSE verdict.err # "none"

\* C20: a link with an unrecognised operator is ignored for the verdict, and
\* an error of its own test still propagates
C20_UnknownOperator ==
  \A i \in 1..Len(conditions) : \A k \in UnknownLinks(conditions[i]) :
    LET c == conditions[i]
        link == ChainsOf(c)[k] IN
    /\ \A name \in ScanNames :
         LinkIgnored(Verdict(name, c), Verdict(name, WithoutLink(c, k)),
                     matches_condition(name, link.pattern, link.type))
    /\ \A name \in ItemNames :
         LinkIgnored(db_Verdict(name, c), db_Verdict(name, WithoutLink(c, k)),
                     db_matches_condition(name, link.pattern, link.type))

\* the scanner renamed an entry under a condition whose only link has an
\* unrecognised operator and does not match the entry's name
C20_Witness ==
  /\ ScanFinished
  /\ Len(conditions) = 1
  /\ Len(ChainsOf(conditions[1])) = 1
  /\ UnknownLinks(conditions[1]) = { 1 }
  /\ \E i \in 1..Len(structure) :
       LET name == EntryName(structure[i])
           c == conditions[1]
           link == ChainsOf(c)[1] IN
       /\ matches_condition(name, link.pattern, link.type) = OkB(FALSE)
       /\ Verdict(name, c) = OkB(TRUE)
       /\ structure[i].alias = Replaced(name, c).val
       /\ structure[i].alias # name

(***************************************************************************)
(* C21  Equivalence of the two copies of the rule engine.  For every name  *)
(* and condition, matches_condition_with_chains and apply_replacement of   *)
(* the scanner give the verdict and the replacement string, or the         *)
(* exception, that the copies nested in                                    *)
(* apply_naming_conditions_to_structure give.                              *)
(***************************************************************************)
\* C21: the scanner's copy and the bulk path's copy agree on the verdict and
\* on the replacement for every name and every condition
C21_CopiesEquivalent ==
  \A k \in 1..Len(conditions) : \A name \in ScanNames \cup ItemNames :
    /\ Verdict(name, conditions[k]) = db_Verdict(name, conditions[k])
    /\ Replaced(name, conditions[k]) = db_Replaced(name, conditions[k])

(***************************************************************************)
(* C22  Stored-structure uniqueness.  Whatever scan-folder and             *)
(* delete-structure requests the server handles, also at the same time,    *)
(* job_structure_settings holds at most one row per pair (customer_name,   *)
(* folder_path), and no step inserts a row for a pair that has a row       *)
(* already or changes a row that stays in the table.                       *)
(***************************************************************************)
SamePair(r, q) == r.customer_name = q.customer_name /\ r.folder_path = q.folder_path

\* at most one row per (customer_name, folder_path)
AtMostOneRow == \A r, q \in table : SamePair(r, q) => r = q

\* a step adds no row for a pair that already has one
NoSecondInsert == \A r \in table' \ table : \A q \in table : ~SamePair(r, q)

\* C22: the table never holds two rows for one pair, and a request for a
\* pair that has a row inserts nothing
C22_StoredUnique == []AtMostOneRow /\ [][NoSecondInsert]_vars

====
